---- MODULE Spec2Model ----
(***************************************************************************)
(* A model of the AFC router of crates/aranya-client/src/afc.rs: the wire  *)
(* framing read by read_msg, the channel table with its sequence-number   *)
(* rule (open_data, add_channel, remove_channel), the stream table         *)
(* (TcpStreams: insert, connect, get_or_open, next_ready), poll, send_ctrl,*)
(* send_data and the node-id counter.                                      *)
(*                                                                         *)
(* The engine is owned exclusively (&mut self), so one engine operation   *)
(* runs at a time; the environment (peers, the network, DNS) acts between *)
(* the engine's steps.                                                     *)
(***************************************************************************)
EXTENDS Integers, Sequences, FiniteSets, TLC

\* ------------------------------------------------------------------------
\* Bounds of the model.
\* ------------------------------------------------------------------------

\* The largest sequence number: stands for u64::MAX (Seq wraps a u64; the
\* model checker's integers are 32-bit, so the width is scaled down).
SeqMax == 1

\* The largest value of the node-id counter: stands for u32::MAX.
NodeIdMax == 3

\* The number of TCP connections that exist at one time.
MaxConns == 2

\* The number of writes a peer makes on one connection.
MaxSend == 2
\* The longest run of consecutive next_ready calls that is followed.
MaxCalls == 4
\* The largest stream table that next_ready is run on by itself.
MaxStreams == 4

\* ------------------------------------------------------------------------
\* Values.
\* ------------------------------------------------------------------------

\* Version::V1 and a stand-in for any other version value.
V1 == "V1"
Versions == {"V1", "V2"}

AfcIds == {"idA", "idB"}
NetIds == {"h1", "h2"}
Addrs == {"a1", "a2"}
Labels == {"l1", "l2"}
\* ChannelId: the pair the opener is keyed by (node_id(), label()).
ChannelIds == [node_id : 0..NodeIdMax, label : Labels]
Seqs == 0..SeqMax

\* Option<T>.
None == <<>>
Some(v) == <<v>>
IsSome(o) == Len(o) = 1
Unwrap(o) == o[1]

\* Result of an operation as the caller sees it: a tag and its payload.
Res(tag, val) == [tag |-> tag, val |-> val]
Unit == <<>>

\* ------------------------------------------------------------------------
\* Byte strings, run-length encoded: a sequence of runs [b |-> byte, n |-> count]
\* in which neighbouring runs hold different bytes (so equal byte strings are
\* equal values, and a 10 MiB body is one run).
\* ------------------------------------------------------------------------
RECURSIVE BLen(_)
BLen(s) == IF s = <<>> THEN 0 ELSE s[1].n + BLen(Tail(s))

BCat(s, t) ==
    IF s = <<>> THEN t
    ELSE IF t = <<>> THEN s
    ELSE IF s[Len(s)].b = t[1].b
         THEN SubSeq(s, 1, Len(s) - 1)
                \o <<[b |-> t[1].b, n |-> s[Len(s)].n + t[1].n]>>
                \o Tail(t)
         ELSE s \o t

\* The first k bytes of s (all of s when it is shorter).
RECURSIVE BTake(_, _)
BTake(s, k) ==
    IF k <= 0 \/ s = <<>> THEN <<>>
    ELSE IF s[1].n <= k THEN <<s[1]>> \o BTake(Tail(s), k - s[1].n)
    ELSE <<[b |-> s[1].b, n |-> k]>>

\* s without its first k bytes.
RECURSIVE BDrop(_, _)
BDrop(s, k) ==
    IF k <= 0 \/ s = <<>> THEN s
    ELSE IF s[1].n <= k THEN BDrop(Tail(s), k - s[1].n)
    ELSE <<[b |-> s[1].b, n |-> s[1].n - k]>> \o Tail(s)

\* The i-th byte of s, 1 <= i <= BLen(s).
RECURSIVE BAt(_, _)
BAt(s, i) == IF i <= s[1].n THEN s[1].b ELSE BAt(Tail(s), i - s[1].n)

\* The byte string of a tuple of bytes.
RECURSIVE Bytes(_)
Bytes(t) == IF t = <<>> THEN <<>> ELSE BCat(<<[b |-> t[1], n |-> 1]>>, Bytes(Tail(t)))

\* n copies of byte b.
Fill(b, n) == IF n = 0 THEN <<>> ELSE <<[b |-> b, n |-> n]>>

Min2(a, b) == IF a <= b THEN a ELSE b

\* A u32 as two 16-bit limbs (the model checker's integers stop at 2^31 - 1).
U32(hi, lo) == [hi |-> hi, lo |-> lo]
\* u32::from_le_bytes of a 4-byte string.
u32_from_le_bytes(s) == U32(BAt(s, 4) * 256 + BAt(s, 3), BAt(s, 2) * 256 + BAt(s, 1))
\* u32::to_le_bytes
u32_to_le_bytes(u) == Bytes(<<u.lo % 256, u.lo \div 256, u.hi % 256, u.hi \div 256>>)
\* The u32 of a number below 2^31, and back (`len as usize`).
U32Of(n) == U32(n \div 65536, n % 65536)
U32ToNat(u) == u.hi * 65536 + u.lo
U32Gt(a, b) == a.hi > b.hi \/ (a.hi = b.hi /\ a.lo > b.lo)

\* const WIRE_HEADER_SIZE: usize = 4 + 4
WIRE_HEADER_SIZE == 4 + 4
\* const WIRE_MAGIC: &[u8; 4] = b"AFC\0"
WIRE_MAGIC == Bytes(<<65, 70, 67, 0>>)
\* const MAX_MSG_SIZE: u32 = 10 * 1024 * 1024
MAX_MSG_SIZE == 10 * 1024 * 1024

\* ------------------------------------------------------------------------
\* State.
\* ------------------------------------------------------------------------
VARIABLES
    chans,          \* Afc::chans: BTreeMap<AfcId, Chan>, a function on the present ids
    streams,        \* Afc::streams: IndexMap<SocketAddr, TcpStream>, in index order
    conns,          \* the TCP connections: remote address, received bytes, condition
    backlog,        \* Afc::listener: connections waiting to be accepted
    next_node_id,   \* Afc::next_node_id
    pc,             \* "idle", or "read_msg" while a read_msg call is suspended
    rd,             \* the suspended read_msg call: its stream and its buffers
    prev_node_id,   \* history: the node id the previous get_next_node_id returned (-1: none)
    hist,           \* history: per afc_id, the largest sequence open_data delivered
    last            \* the operation that completed last, its input and its result

vars == <<chans, streams, conns, backlog, next_node_id, pc, rd, prev_node_id, hist, last>>
netvars == <<streams, conns, backlog>>

\* A channel table entry (struct Chan).
Chan(net_id, chan_id, addr, next_min_seq) ==
    [net_id |-> net_id, chan_id |-> chan_id, addr |-> addr, next_min_seq |-> next_min_seq]

\* No read_msg call is suspended.
\* consumed counts the bytes the call has taken from the stream, alloc is the
\* size of the body buffer it allocated (-1: none).
NoRead == [addr |-> "none", sid |-> 0, phase |-> "none", hdr |-> <<>>, need |-> 0,
           body |-> <<>>, consumed |-> 0, alloc |-> -1]

Last(op, arg, res, pre) == [op |-> op, arg |-> arg, res |-> res, pre |-> pre]
NoLast == Last("none", Unit, Res("none", Unit), Unit)
\* What `last` holds after a step of the environment.
EnvLast == Last("env", Unit, Res("none", Unit), Unit)

\* hist[id].ever: largest sequence ever delivered under this afc_id (-1: none);
\* hist[id].cur: the same, counted since the present entry was inserted.
NoHist == [ever |-> -1, cur |-> -1]
Max2(a, b) == IF a >= b THEN a ELSE b

\* ------------------------------------------------------------------------
\* Channel table.
\* ------------------------------------------------------------------------

\* BTreeMap insert/remove on a function.
MapPut(m, k, v) == [x \in (DOMAIN m) \cup {k} |-> IF x = k THEN v ELSE m[x]]
MapDel(m, k) == [x \in (DOMAIN m) \ {k} |-> m[x]]

\* A faulty add_channel, which overwrites an occupied entry.
add_channel_overwrite(ch, id, net_id, chan_id, addr) ==
    MapPut(ch, id, Chan(net_id, chan_id, addr, Some(0)))

\* Afc::add_channel's effect on the table: an occupied entry is left alone,
\* a vacant one gets next_min_seq = Some(Seq::ZERO).
add_channel(ch, id, net_id, chan_id, addr) ==
    IF id \in DOMAIN ch
    THEN ch
    ELSE MapPut(ch, id, Chan(net_id, chan_id, addr, Some(0)))

\* Afc::remove_channel's effect on the table.
remove_channel(ch, id) == MapDel(ch, id)

\* A faulty successor, which wraps around to 0.
checked_add_wrapping(seq) == Some((seq + 1) % (SeqMax + 1))

\* seq.to_u64().checked_add(1).map(Seq::new)
checked_add(seq) == IF seq = SeqMax THEN None ELSE Some(seq + 1)

\* A faulty replay test, which lets the last accepted sequence through.
is_replay_off_by_one(seq, next_min_seq) == seq + 1 < next_min_seq

\* The replay test of open_data: seq < next_min_seq.
is_replay(seq, next_min_seq) == seq < next_min_seq

\* Chan::next_min_seq(): Ok(v) or Err(EndOfChannel).
next_min_seq(chan) ==
    IF IsSome(chan.next_min_seq)
    THEN Res("Ok", Unwrap(chan.next_min_seq))
    ELSE Res("EndOfChannel", Unit)

\* A faulty check_version, which lets every version through.
check_version_any(version) == Res("Ok", Unit)

\* Afc::check_version
check_version(version) ==
    IF version # V1 THEN Res("VersionMismatch", version) ELSE Res("Ok", Unit)

\* The ciphertext of a Data message, as open_data sees it: what
\* Message::try_parse makes of it, whether the payload is at least
\* Client::OVERHEAD long, and what the opener returns for it.
Ciphertexts ==
    {[parse |-> "err", small |-> FALSE, open |-> "err", label |-> "l1", seq |-> 0],
     [parse |-> "control", small |-> FALSE, open |-> "err", label |-> "l1", seq |-> 0],
     [parse |-> "data", small |-> TRUE, open |-> "err", label |-> "l1", seq |-> 0],
     [parse |-> "data", small |-> FALSE, open |-> "err", label |-> "l1", seq |-> 0]}
    \cup {[parse |-> "data", small |-> FALSE, open |-> "ok", label |-> l, seq |-> s] :
            l \in Labels, s \in Seqs}
Datas ==
    [version : {V1}, afc_id : AfcIds, ciphertext : Ciphertexts]
    \cup [version : Versions \ {V1}, afc_id : AfcIds,
          ciphertext : {ct \in Ciphertexts : ct.open = "ok" /\ ct.label = "l1" /\ ct.seq = 0}]

\* A faulty open_data, which compares the labels after it has advanced
\* next_min_seq.
open_data_label_last(ch, data) ==
    LET ct == data.ciphertext
        cv == check_version(data.version)
        Out(res, opened, ch2) == [res |-> res, opened |-> opened, chans |-> ch2]
    IN  IF cv.tag # "Ok" THEN Out(cv, FALSE, ch)
        ELSE IF data.afc_id \notin DOMAIN ch
            THEN Out(Res("ChannelNotFound", data.afc_id), FALSE, ch)
        ELSE LET chan == ch[data.afc_id]
                 nms == next_min_seq(chan)
                 advanced == [ch EXCEPT ![data.afc_id].next_min_seq = checked_add(ct.seq)]
             IN  IF nms.tag # "Ok" THEN Out(nms, FALSE, ch)
                 ELSE IF ct.parse = "err" THEN Out(Res("InvalidMsg", Unit), FALSE, ch)
                 ELSE IF ct.parse = "control" THEN Out(Res("Bug", "control"), FALSE, ch)
                 ELSE IF ct.small THEN Out(Res("PayloadTooSmall", Unit), FALSE, ch)
                 ELSE IF ct.open # "ok" THEN Out(Res("Decryption", Unit), FALSE, ch)
                 ELSE IF is_replay(ct.seq, nms.val) THEN Out(Res("MsgReplayed", ct.seq), TRUE, ch)
                 ELSE IF chan.chan_id.label # ct.label THEN Out(Res("Bug", "label"), TRUE, advanced)
                 ELSE Out(Res("Ok", [afc_id |-> data.afc_id, label |-> ct.label, seq |-> ct.seq]),
                          TRUE, advanced)

\* A faulty open_data, which parses the ciphertext before it looks the
\* channel up.
open_data_parse_first(ch, data) ==
    LET ct == data.ciphertext
        cv == check_version(data.version)
        Out(res, opened, ch2) == [res |-> res, opened |-> opened, chans |-> ch2]
    IN  IF cv.tag # "Ok" THEN Out(cv, FALSE, ch)
        ELSE IF ct.parse = "err" THEN Out(Res("InvalidMsg", Unit), FALSE, ch)
        ELSE IF data.afc_id \notin DOMAIN ch
            THEN Out(Res("ChannelNotFound", data.afc_id), FALSE, ch)
        ELSE LET chan == ch[data.afc_id]
                 nms == next_min_seq(chan)
             IN  IF nms.tag # "Ok" THEN Out(nms, FALSE, ch)
                 ELSE IF ct.parse = "control" THEN Out(Res("Bug", "control"), FALSE, ch)
                 ELSE IF ct.small THEN Out(Res("PayloadTooSmall", Unit), FALSE, ch)
                 ELSE IF ct.open # "ok" THEN Out(Res("Decryption", Unit), FALSE, ch)
                 ELSE IF chan.chan_id.label # ct.label THEN Out(Res("Bug", "label"), TRUE, ch)
                 ELSE IF is_replay(ct.seq, nms.val) THEN Out(Res("MsgReplayed", ct.seq), TRUE, ch)
                 ELSE Out(Res("Ok", [afc_id |-> data.afc_id, label |-> ct.label, seq |-> ct.seq]),
                          TRUE,
                          [ch EXCEPT ![data.afc_id].next_min_seq = checked_add(ct.seq)])

\* Afc::open_data: the result and the channel table afterwards.
\* `opened` tells whether the opener was called and returned (label, seq).
open_data(ch, data) ==
    LET ct == data.ciphertext
        cv == check_version(data.version)
        Out(res, opened, ch2) == [res |-> res, opened |-> opened, chans |-> ch2]
    IN  IF cv.tag # "Ok" THEN Out(cv, FALSE, ch)
        ELSE IF data.afc_id \notin DOMAIN ch
            THEN Out(Res("ChannelNotFound", data.afc_id), FALSE, ch)
        ELSE LET chan == ch[data.afc_id]
                 nms == next_min_seq(chan)
             IN  IF nms.tag # "Ok" THEN Out(nms, FALSE, ch)
                 ELSE IF ct.parse = "err" THEN Out(Res("InvalidMsg", Unit), FALSE, ch)
                 ELSE IF ct.parse = "control" THEN Out(Res("Bug", "control"), FALSE, ch)
                 ELSE IF ct.small THEN Out(Res("PayloadTooSmall", Unit), FALSE, ch)
                 ELSE IF ct.open # "ok" THEN Out(Res("Decryption", Unit), FALSE, ch)
                 ELSE IF chan.chan_id.label # ct.label THEN Out(Res("Bug", "label"), TRUE, ch)
                 ELSE IF is_replay(ct.seq, nms.val) THEN Out(Res("MsgReplayed", ct.seq), TRUE, ch)
                 ELSE Out(Res("Ok", [afc_id |-> data.afc_id, label |-> ct.label, seq |-> ct.seq]),
                          TRUE,
                          [ch EXCEPT ![data.afc_id].next_min_seq = checked_add(ct.seq)])

\* ------------------------------------------------------------------------
\* Connections and the network.
\* ------------------------------------------------------------------------
Sids == 1..MaxConns

\* A connection: st is "open", "eof" (the peer closed its side; what was
\* received can still be read), "err" (the connection was reset; what was
\* received is gone) or "free" (no such connection); dir tells who opened it;
\* rx holds the bytes received and not yet read;
\* sent counts what the peer has sent on it (the model bounds it);
\* net holds the bytes the peer has written that have not arrived yet;
\* msgs is history: the messages whose envelopes the peer has written and
\* that no read_msg has returned yet, in the order written.
Conn(st, dir, peer, rx) ==
    [st |-> st, dir |-> dir, peer |-> peer, rx |-> rx, sent |-> 0, net |-> <<>>, msgs |-> <<>>]
FreeConn == Conn("free", "none", "none", <<>>)
FreeSids(cs) == {sid \in Sids : cs[sid].st = "free"}
NewSid(cs) == CHOOSE sid \in FreeSids(cs) : \A other \in FreeSids(cs) : sid <= other
\* Dropping a TcpStream closes the connection.
Drop(cs, sid) == [cs EXCEPT ![sid] = FreeConn]

\* The addresses a host name can resolve to, and the answers a lookup can
\* give: DNS may return any of them, in any order.
HostAddrs(host) == IF host = "h1" THEN {"a1", "a2"} ELSE {"a2"}
DnsAnswers(host) ==
    {<<a>> : a \in HostAddrs(host)}
    \cup {p \in HostAddrs(host) \X HostAddrs(host) : p[1] # p[2]}

\* TcpStream::peer_addr: fails on a connection that was reset.
peer_addr(c) ==
    IF c.st = "err" THEN Res("StreamPeerAddr", Unit) ELSE Res("Ok", c.peer)

\* A faulty write, which ignores the errors of the write and the flush.
write_flush_unchecked(cs, sid, write_ok) ==
    IF cs[sid].st = "err" \/ write_ok THEN [ok |-> TRUE, conns |-> cs]
    ELSE [ok |-> TRUE,
          conns |-> [cs EXCEPT ![sid].st = "err", ![sid].rx = <<>>, ![sid].sent = 0,
                               ![sid].net = <<>>, ![sid].msgs = <<>>]]

\* write_all_vectored followed by flush on connection sid. The write fails on
\* a reset connection; write_ok = FALSE is a reset that arrives during the write.
write_flush(cs, sid, write_ok) ==
    IF cs[sid].st = "err" THEN [ok |-> FALSE, conns |-> cs]
    ELSE IF write_ok THEN [ok |-> TRUE, conns |-> cs]
    ELSE [ok |-> FALSE,
          conns |-> [cs EXCEPT ![sid].st = "err", ![sid].rx = <<>>, ![sid].sent = 0,
                               ![sid].net = <<>>, ![sid].msgs = <<>>]]

\* ------------------------------------------------------------------------
\* Stream table (TcpStreams): a sequence of [addr, sid] in index order.
\* ------------------------------------------------------------------------
Entry(addr, sid) == [addr |-> addr, sid |-> sid]
Keys(strs) == {strs[i].addr : i \in 1..Len(strs)}
StreamSids(strs) == {strs[i].sid : i \in 1..Len(strs)}
IndexOf(strs, addr) == CHOOSE i \in 1..Len(strs) : strs[i].addr = addr

\* TcpStreams::contains
contains(strs, addr) == addr \in Keys(strs)

\* TcpStreams::get_mut
get_mut(strs, addr) ==
    IF addr \in Keys(strs) THEN Some(strs[IndexOf(strs, addr)].sid) ELSE None

\* A faulty removal, which closes the gap by shifting the later entries down
\* (IndexMap::shift_remove_index).
shift_remove_index(strs, idx) ==
    [i \in 1..(Len(strs) - 1) |-> IF i <= idx THEN strs[i] ELSE strs[i + 1]]

\* IndexMap::swap_remove_index(idx), idx counted from 0.
swap_remove_index(strs, idx) ==
    LET n == Len(strs) IN
    IF idx + 1 = n THEN SubSeq(strs, 1, n - 1)
    ELSE [i \in 1..(n - 1) |-> IF i = idx + 1 THEN strs[n] ELSE strs[i]]

\* A faulty insert, which replaces the stream of an occupied entry and hands
\* the earlier stream back.
insert_clobber(strs, cs, sid) ==
    LET a == peer_addr(cs[sid]) IN
    IF a.tag # "Ok"
    THEN [res |-> a, streams |-> strs, old |-> 0, dupe |-> None]
    ELSE IF a.val \in Keys(strs)
    THEN [res |-> a,
          streams |-> [strs EXCEPT ![IndexOf(strs, a.val)] = Entry(a.val, sid)],
          old |-> sid, dupe |-> Some(strs[IndexOf(strs, a.val)].sid)]
    ELSE [res |-> a, streams |-> Append(strs, Entry(a.val, sid)), old |-> sid, dupe |-> None]

\* TcpStreams::insert: the stream the table holds for the address afterwards
\* (old) and the stream handed back as a duplicate (dupe).
insert(strs, cs, sid) ==
    LET a == peer_addr(cs[sid]) IN
    IF a.tag # "Ok"
    THEN [res |-> a, streams |-> strs, old |-> 0, dupe |-> None]
    ELSE IF a.val \in Keys(strs)
    THEN [res |-> a, streams |-> strs, old |-> strs[IndexOf(strs, a.val)].sid, dupe |-> Some(sid)]
    ELSE [res |-> a, streams |-> Append(strs, Entry(a.val, sid)), old |-> sid, dupe |-> None]

\* The outcome of a stream-table operation: the result (on Ok its value is
\* the stream returned), the table and the connections afterwards, the
\* connection opened by the call (0: none), the duplicate it closed (0: none).
StreamOut(res, strs, cs, opened, closed) ==
    [res |-> res, streams |-> strs, conns |-> cs, opened |-> opened, closed |-> closed]

\* TcpStreams::connect. `to` is the address TcpStream::connect(peer) reached,
\* or "fail".
connect(strs, cs, host, to) ==
    IF to = "fail" THEN StreamOut(Res("StreamConnect", Unit), strs, cs, 0, 0)
    ELSE LET sid == NewSid(cs)
             cs1 == [cs EXCEPT ![sid] = Conn("open", "out", to, <<>>)]
             ins == insert(strs, cs1, sid)
         IN  IF ins.res.tag # "Ok" THEN StreamOut(ins.res, strs, Drop(cs1, sid), sid, sid)
             ELSE IF IsSome(ins.dupe)
                  \* stream.shutdown(), then the duplicate is dropped
                  THEN StreamOut(Res("Ok", ins.old), ins.streams,
                                 Drop(cs1, Unwrap(ins.dupe)), sid, Unwrap(ins.dupe))
                  ELSE StreamOut(Res("Ok", ins.old), ins.streams, cs1, sid, 0)

\* TcpStreams::get_or_open: a vacant entry for `addr` is filled with the
\* stream TcpStream::connect(host) returns.
get_or_open(strs, cs, addr, host, to) ==
    IF addr \in Keys(strs)
    THEN StreamOut(Res("Ok", strs[IndexOf(strs, addr)].sid), strs, cs, 0, 0)
    ELSE IF to = "fail" THEN StreamOut(Res("StreamConnect", Unit), strs, cs, 0, 0)
    ELSE LET sid == NewSid(cs)
             cs1 == [cs EXCEPT ![sid] = Conn("open", "out", to, <<>>)]
         IN  StreamOut(Res("Ok", sid), Append(strs, Entry(addr, sid)), cs1, sid, 0)

\* TcpStreams::try_get_or_open
try_get_or_open(strs, cs, addr_opt, host, to) ==
    IF IsSome(addr_opt)
    THEN get_or_open(strs, cs, Unwrap(addr_opt), host, to)
    ELSE connect(strs, cs, host, to)

\* Whether an operation that may open a connection can do so in the model.
CanOpen(cs) == FreeSids(cs) # {}

\* A faulty stream_is_ready, which takes any buffered byte for a header.
stream_is_ready_any_byte(c) ==
    IF c.st = "err" THEN "err"
    ELSE IF BLen(c.rx) >= 1 THEN "ready"
    ELSE "pending"

\* stream_is_ready: "err", TRUE (at least the wire header is buffered) or FALSE.
stream_is_ready(c) ==
    IF c.st = "err" THEN "err"
    ELSE IF BLen(c.rx) >= WIRE_HEADER_SIZE THEN "ready"
    ELSE "pending"

\* A faulty loop, which does not go back to index 0 when the stream it
\* evicted was the last of the table.
RECURSIVE next_ready_loop_no_wrap(_, _, _, _, _, _)
next_ready_loop_no_wrap(strs, cs, start, idx, k, probed) ==
    IF k = 0 THEN [res |-> Res("Pending", Unit), streams |-> strs, probed |-> probed]
    ELSE IF idx >= Len(strs)
         THEN [res |-> Res("panic", idx), streams |-> strs, probed |-> probed]
    ELSE LET e == strs[idx + 1]
             r == stream_is_ready(cs[e.sid])
             probed2 == Append(probed, e.sid)
         IN  IF r = "ready"
             THEN [res |-> Res("Ready", e.addr), streams |-> strs, probed |-> probed2]
             ELSE IF r = "err"
             THEN LET strs2 == swap_remove_index(strs, idx)
                      idx2 == IF idx < start /\ start <= Len(strs2)
                              THEN (idx + 1) % Len(strs2)
                              ELSE idx
                  IN  next_ready_loop_no_wrap(strs2, cs, start, idx2, k - 1, probed2)
             ELSE next_ready_loop_no_wrap(strs, cs, start, (idx + 1) % Len(strs), k - 1, probed2)

\* The loop of TcpStreams::next_ready from index idx with k iterations left.
\* It yields the result, the table left, and the streams it probed, in order.
RECURSIVE next_ready_loop(_, _, _, _, _, _)
next_ready_loop(strs, cs, start, idx, k, probed) ==
    IF k = 0 THEN [res |-> Res("Pending", Unit), streams |-> strs, probed |-> probed]
    ELSE IF idx >= Len(strs)
         \* self.streams[idx] out of bounds
         THEN [res |-> Res("panic", idx), streams |-> strs, probed |-> probed]
    ELSE LET e == strs[idx + 1]
             r == stream_is_ready(cs[e.sid])
             probed2 == Append(probed, e.sid)
         IN  IF r = "ready"
             THEN [res |-> Res("Ready", e.addr), streams |-> strs, probed |-> probed2]
             ELSE IF r = "err"
             THEN LET strs2 == swap_remove_index(strs, idx)
                      idx2 == IF idx = Len(strs2) THEN 0
                              ELSE IF idx < start /\ start <= Len(strs2)
                                   THEN (idx + 1) % Len(strs2)
                                   ELSE idx
                  IN  next_ready_loop(strs2, cs, start, idx2, k - 1, probed2)
             ELSE next_ready_loop(strs, cs, start, (idx + 1) % Len(strs), k - 1, probed2)

\* A faulty next_ready, which gives up one iteration early.
next_ready_short(strs, cs, start) ==
    IF strs = <<>>
    THEN [res |-> Res("Pending", Unit), streams |-> strs, probed |-> <<>>]
    ELSE next_ready_loop(strs, cs, start, start, Len(strs) - 1, <<>>)

\* A faulty next_ready, which always starts at index 0.
next_ready_from_zero(strs, cs, start) ==
    IF strs = <<>>
    THEN [res |-> Res("Pending", Unit), streams |-> strs, probed |-> <<>>]
    ELSE next_ready_loop(strs, cs, 0, 0, Len(strs), <<>>)

\* TcpStreams::next_ready with the random start index given.
next_ready(strs, cs, start) ==
    IF strs = <<>>
    THEN [res |-> Res("Pending", Unit), streams |-> strs, probed |-> <<>>]
    ELSE next_ready_loop(strs, cs, start, start, Len(strs), <<>>)

\* The connections after the streams evicted from the table are dropped.
DropEvicted(cs, before, after) ==
    [sid \in Sids |->
        IF sid \in StreamSids(before) \ StreamSids(after) THEN FreeConn ELSE cs[sid]]

\* A faulty selection, which prefers the listener.
select_listener_first(nr_res, bl) ==
    IF bl # <<>> THEN "accept"
    ELSE IF nr_res.tag # "Pending" THEN "next"
    ELSE "pending"

\* tokio::select! { biased; streams.next(), listener.accept() }: the branches
\* are polled in source order, and the first one that is ready is taken.
select_biased(nr_res, bl) ==
    IF nr_res.tag # "Pending" THEN "next"
    ELSE IF bl # <<>> THEN "accept"
    ELSE "pending"

\* Afc::poll: one poll of the select!. With neither branch ready the call
\* stays suspended ("Pending"), and is polled again or dropped.
poll(strs, cs, bl, start, accept_ok) ==
    LET nr == next_ready(strs, cs, start)
        cs1 == DropEvicted(cs, strs, nr.streams)
        branch == select_biased(nr.res, bl)
        Out(res, strs2, cs2, bl2, accepted) ==
            [res |-> res, streams |-> strs2, conns |-> cs2, backlog |-> bl2,
             accepted |-> accepted, probed |-> nr.probed]
    IN  IF branch = "next"
        THEN IF nr.res.tag = "Ready"
             THEN Out(Res("Msg", nr.res.val), nr.streams, cs1, bl, 0)
             ELSE Out(nr.res, nr.streams, cs1, bl, 0)
        ELSE IF branch = "pending" THEN Out(Res("Pending", Unit), nr.streams, cs1, bl, 0)
        ELSE LET sid == Head(bl) IN
             IF ~accept_ok
             THEN Out(Res("StreamAccept", Unit), nr.streams, Drop(cs1, sid), Tail(bl), 0)
             ELSE LET addr == cs1[sid].peer
                      ins == insert(nr.streams, cs1, sid)
                  IN  IF ins.res.tag # "Ok"
                      THEN Out(ins.res, nr.streams, Drop(cs1, sid), Tail(bl), sid)
                      ELSE IF IsSome(ins.dupe)
                      \* the duplicate handed back by insert is dropped
                      THEN Out(Res("Accept", addr), ins.streams,
                               Drop(cs1, Unwrap(ins.dupe)), Tail(bl), sid)
                      ELSE Out(Res("Accept", addr), ins.streams, cs1, Tail(bl), sid)

\* The first resolved address that has a stream (the `find` of send_ctrl).
RECURSIVE find_contained(_, _)
find_contained(resolved, strs) ==
    IF resolved = <<>> THEN None
    ELSE IF contains(strs, Head(resolved)) THEN Some(Head(resolved))
    ELSE find_contained(Tail(resolved), strs)

\* Afc::send_ctrl. dns is what lookup_host returned (None: it failed), `to`
\* what a connect reaches, write_ok whether the write and flush go through.
send_ctrl(ch, strs, cs, net_id, afc_id, chan_id, dns, to, write_ok) ==
    LET Out(res, ch2, so, wrote) ==
            [res |-> res, chans |-> ch2, streams |-> so.streams, conns |-> so.conns,
             opened |-> so.opened, closed |-> so.closed, wrote |-> wrote]
        same == StreamOut(Res("Ok", 0), strs, cs, 0, 0)
    IN  IF ~IsSome(dns) THEN Out(Res("DnsLookup", Unit), ch, same, 0)
        ELSE LET addr_opt == find_contained(Unwrap(dns), strs)
                 so == try_get_or_open(strs, cs, addr_opt, net_id, to)
             IN  IF so.res.tag # "Ok" THEN Out(so.res, ch, so, 0)
                 ELSE LET sid == so.res.val
                          pa == peer_addr(so.conns[sid])
                      IN  IF pa.tag # "Ok" THEN Out(pa, ch, so, 0)
                          ELSE LET w == write_flush(so.conns, sid, write_ok)
                                   so2 == [so EXCEPT !.conns = w.conns]
                               IN  IF ~w.ok THEN Out(Res("StreamWrite", Unit), ch, so2, 0)
                                   ELSE Out(Res("Ok", Unit),
                                            add_channel(ch, afc_id, net_id, chan_id, pa.val),
                                            so2, sid)

\* Afc::send_data. seal_ok is whether the sealer sealed the plaintext.
send_data(ch, strs, cs, id, seal_ok, to, write_ok) ==
    LET Out(res, so, wrote) ==
            [res |-> res, streams |-> so.streams, conns |-> so.conns,
             opened |-> so.opened, closed |-> so.closed, wrote |-> wrote]
        same == StreamOut(Res("Ok", 0), strs, cs, 0, 0)
    IN  IF id \notin DOMAIN ch THEN Out(Res("ChannelNotFound", id), same, 0)
        ELSE IF ~seal_ok THEN Out(Res("Encryption", Unit), same, 0)
        ELSE LET chan == ch[id]
                 so == get_or_open(strs, cs, chan.addr, chan.net_id, to)
             IN  IF so.res.tag # "Ok" THEN Out(so.res, so, 0)
                 ELSE LET sid == so.res.val
                          w == write_flush(so.conns, sid, write_ok)
                          so2 == [so EXCEPT !.conns = w.conns]
                      IN  IF ~w.ok THEN Out(Res("StreamWrite", Unit), so2, 0)
                          ELSE Out(Res("Ok", Unit), so2, sid)

\* ------------------------------------------------------------------------
\* Wire format: magic || len || msg, msg a postcard-encoded Msg.
\* ------------------------------------------------------------------------

\* The size of an Id (AfcId, TeamId) in bytes.
ID_SIZE == 32
\* The bytes of the ids of the model.
IdBytes(id) ==
    Fill(CASE id = "idA" -> 161 [] id = "idB" -> 162 [] OTHER -> 163, ID_SIZE)

\* A Msg: Ctrl{version, team_id, cmd} or Data{version, afc_id, ciphertext};
\* id and bytes are byte strings.
Msg(kind, version, id, bytes) ==
    [kind |-> kind, version |-> version, id |-> id, bytes |-> bytes]

\* postcard's varint (LEB128) of a length below 2^31, as a tuple of bytes.
RECURSIVE varint_enc(_)
varint_enc(n) == IF n < 128 THEN <<n>> ELSE <<128 + (n % 128)>> \o varint_enc(n \div 128)

\* Decoding a varint that starts at byte pos of s; i is the index of the byte
\* within the varint, acc the value so far, mult = 128^i. A value of 2^31 or
\* more is reported as a failure: no body of the model is that long.
RECURSIVE varint_dec(_, _, _, _, _)
varint_dec(s, pos, i, mult, acc) ==
    IF pos > BLen(s) THEN [ok |-> FALSE, val |-> 0, next |-> pos]
    ELSE LET byte == BAt(s, pos)
             low == byte % 128
         IN  IF i = 4
             THEN IF byte >= 128 \/ low > 7
                  THEN [ok |-> FALSE, val |-> 0, next |-> pos]
                  ELSE [ok |-> TRUE, val |-> acc + low * mult, next |-> pos + 1]
             ELSE IF byte < 128
                  THEN [ok |-> TRUE, val |-> acc + low * mult, next |-> pos + 1]
                  ELSE varint_dec(s, pos + 1, i + 1, mult * 128, acc + low * mult)

\* postcard::to_allocvec(&Msg)
to_allocvec(m) ==
    BCat(BCat(BCat(Bytes(<<IF m.kind = "Ctrl" THEN 0 ELSE 1,
                           IF m.version = V1 THEN 1 ELSE 2>>),
                   m.id),
              Bytes(varint_enc(BLen(m.bytes)))),
         m.bytes)

\* postcard::from_bytes::<Msg>: Ok(msg) or Serde. Bytes after the message
\* are ignored.
from_bytes(s) ==
    LET n == BLen(s)
        fail == Res("Serde", Unit)
    IN  IF n < 2 + ID_SIZE THEN fail
        ELSE IF BAt(s, 1) \notin {0, 1} \/ BAt(s, 2) \notin {1, 2} THEN fail
        ELSE LET v == varint_dec(s, 3 + ID_SIZE, 0, 1, 0) IN
             IF ~v.ok \/ v.val > n - (v.next - 1) THEN fail
             ELSE Res("Ok", Msg(IF BAt(s, 1) = 0 THEN "Ctrl" ELSE "Data",
                                IF BAt(s, 2) = 1 THEN "V1" ELSE "V2",
                                BTake(BDrop(s, 2), ID_SIZE),
                                BTake(BDrop(s, v.next - 1), v.val)))

\* A faulty envelope: the length prefix is written big-endian.
envelope_len_be(data) ==
    BCat(BCat(WIRE_MAGIC, Bytes(<<U32Of(BLen(data)).hi \div 256, U32Of(BLen(data)).hi % 256,
                                  U32Of(BLen(data)).lo \div 256, U32Of(BLen(data)).lo % 256>>)),
         data)

\* The envelope send_ctrl and send_data write for the serialized message.
envelope(data) == BCat(BCat(WIRE_MAGIC, u32_to_le_bytes(U32Of(BLen(data)))), data)

\* What send_ctrl and send_data make of a message before they write it:
\* postcard::to_allocvec, u32::try_from(data.len()) and the three slices
\* magic, len, data. No body of the model reaches 2^32 bytes, so try_from
\* succeeds.
encode(m) == Res("Ok", envelope(to_allocvec(m)))

\* The cmd of a Ctrl message and the sealed datagram of a Data message that
\* the specifications send unless they say otherwise.
SmallCmd == Bytes(<<7>>)
SmallDatagram == Bytes(<<9>>)

\* One run of a read_msg call on connection c, from where the call stands
\* (r), until it completes or has to wait for bytes. read_exact takes what
\* is buffered; at the end of the stream it fails with what it took lost.
ReadOut(done, res, r, c) == [done |-> done, res |-> res, rd |-> r, conn |-> c]

\* stream.read_exact(&mut buf) for the body, then postcard::from_bytes.
read_body(c, r) ==
    LET k == Min2(BLen(c.rx), r.need - BLen(r.body))
        body == BCat(r.body, BTake(c.rx, k))
        c2 == [c EXCEPT !.rx = BDrop(c.rx, k)]
        r2 == [r EXCEPT !.phase = "body", !.body = body, !.consumed = @ + k]
    IN  IF BLen(body) < r.need
        THEN IF c.st = "open"
             THEN ReadOut(FALSE, Res("Pending", Unit), r2, c2)
             ELSE ReadOut(TRUE, Res("StreamRead", Unit), r2, c2)
        ELSE ReadOut(TRUE, from_bytes(body), r2, c2)

\* A faulty length test, which rejects MAX_MSG_SIZE itself.
too_large_ge(len) == ~U32Gt(U32Of(MAX_MSG_SIZE), len)

\* The length test of read_msg: len > MAX_MSG_SIZE.
too_large(len) == U32Gt(len, U32Of(MAX_MSG_SIZE))

\* A faulty magic test, which compares the first byte only.
bad_magic_first_byte(magic) == BAt(magic, 1) # BAt(WIRE_MAGIC, 1)

\* The magic test of read_msg: magic != *WIRE_MAGIC.
bad_magic(magic) == magic # WIRE_MAGIC

\* stream.read_exact of the 8-byte header, the magic and length checks, the
\* allocation of the body buffer.
read_header(c, r) ==
    LET k == Min2(BLen(c.rx), WIRE_HEADER_SIZE - BLen(r.hdr))
        hdr == BCat(r.hdr, BTake(c.rx, k))
        c2 == [c EXCEPT !.rx = BDrop(c.rx, k)]
        r2 == [r EXCEPT !.phase = "header", !.hdr = hdr, !.consumed = @ + k]
    IN  IF BLen(hdr) < WIRE_HEADER_SIZE
        THEN IF c.st = "open"
             THEN ReadOut(FALSE, Res("Pending", Unit), r2, c2)
             ELSE ReadOut(TRUE, Res("StreamRead", Unit), r2, c2)
        ELSE LET magic == BTake(hdr, 4)
                 len == u32_from_le_bytes(BDrop(hdr, 4))
             IN  IF bad_magic(magic)
                 THEN ReadOut(TRUE, Res("InvalidMagic", u32_from_le_bytes(magic)), r2, c2)
                 ELSE IF too_large(len)
                 THEN ReadOut(TRUE,
                              Res("MsgTooLarge", [got |-> len, max |-> U32Of(MAX_MSG_SIZE)]),
                              r2, c2)
                 ELSE read_body(c2, [r2 EXCEPT !.need = U32ToNat(len),
                                               !.alloc = U32ToNat(len)])

\* stream.readable().await, then the rest.
read_readable(c, r) ==
    IF c.st = "open" /\ c.rx = <<>>
    THEN ReadOut(FALSE, Res("Pending", Unit), r, c)
    ELSE read_header(c, r)

read_msg_run(c, r) ==
    IF r.phase = "readable" THEN read_readable(c, r)
    ELSE IF r.phase = "header" THEN read_header(c, r)
    ELSE read_body(c, r)

\* ------------------------------------------------------------------------
\* Engine operations (actions).
\* ------------------------------------------------------------------------

AddChannel(id, net_id, chan_id, addr) ==
    /\ pc = "idle"
    /\ chans' = add_channel(chans, id, net_id, chan_id, addr)
    /\ hist' = IF id \in DOMAIN chans THEN hist ELSE [hist EXCEPT ![id].cur = -1]
    /\ last' = Last("add_channel",
                    [id |-> id, net_id |-> net_id, chan_id |-> chan_id, addr |-> addr],
                    Res("Ok", Unit),
                    [present |-> id \in DOMAIN chans])
    /\ UNCHANGED <<netvars, pc, rd, next_node_id, prev_node_id>>

RemoveChannel(id) ==
    /\ pc = "idle"
    /\ chans' = remove_channel(chans, id)
    /\ hist' = [hist EXCEPT ![id].cur = -1]
    /\ last' = Last("remove_channel", [id |-> id], Res("Ok", Unit), Unit)
    /\ UNCHANGED <<netvars, pc, rd, next_node_id, prev_node_id>>

OpenData(data) ==
    LET out == open_data(chans, data)
        id == data.afc_id
    IN  /\ pc = "idle"
        /\ chans' = out.chans
        /\ hist' = IF out.res.tag = "Ok"
                   THEN [hist EXCEPT ![id] = [ever |-> Max2(@.ever, data.ciphertext.seq),
                                              cur |-> Max2(@.cur, data.ciphertext.seq)]]
                   ELSE hist
        /\ last' = Last("open_data", data, out.res,
                        [opened |-> out.opened, hist |-> hist[id]])
        /\ UNCHANGED <<netvars, pc, rd, next_node_id, prev_node_id>>

\* Afc::get_next_node_id. `self.next_node_id += 1` on a u32 at u32::MAX
\* panics in a build with overflow checks and wraps to 0 in one without.
GetNextNodeId ==
    \E overflow_checks \in BOOLEAN :
        LET node_id == next_node_id IN
        /\ pc = "idle"
        /\ IF next_node_id = NodeIdMax /\ overflow_checks
           THEN /\ last' = Last("get_next_node_id", Unit, Res("panic", Unit), [prev |-> prev_node_id])
                /\ UNCHANGED <<netvars, pc, rd, chans, hist, next_node_id, prev_node_id>>
           ELSE /\ next_node_id' = (next_node_id + 1) % (NodeIdMax + 1)
                /\ prev_node_id' = node_id
                /\ last' = Last("get_next_node_id", Unit, Res("Ok", node_id), [prev |-> prev_node_id])
                /\ UNCHANGED <<netvars, pc, rd, chans, hist>>

\* Afc::poll. start is the random start index of next_ready.
Poll ==
    \E start \in 0..(IF streams = <<>> THEN 0 ELSE Len(streams) - 1), accept_ok \in BOOLEAN :
        LET out == poll(streams, conns, backlog, start, accept_ok) IN
        /\ pc = "idle"
        /\ streams' = out.streams
        /\ conns' = out.conns
        /\ backlog' = out.backlog
        /\ last' = Last("poll", Unit, out.res, [accepted |-> out.accepted])
        /\ UNCHANGED <<chans, pc, rd, next_node_id, prev_node_id, hist>>

\* Every stream of the table has the wire header buffered.
AllReady(strs, cs) ==
    /\ strs # <<>>
    /\ \A i \in 1..Len(strs) : stream_is_ready(cs[strs[i].sid]) = "ready"

\* No run of next_ready calls on ready streams is under way.
NoRun == [calls |-> 0, picks |-> [a \in Addrs |-> 0]]

\* TcpStreams::next_ready, polled through NextStream. start is the random
\* start index. The step keeps the history of the current run: the number of
\* consecutive calls made while every stream of the table was ready, and how
\* often each stream was selected in them.
NextReady ==
    \E start \in 0..(IF streams = <<>> THEN 0 ELSE Len(streams) - 1) :
        LET out == next_ready(streams, conns, start)
            run == IF last.op = "next_ready" THEN last.pre.run ELSE NoRun
            run2 == IF AllReady(streams, conns) /\ out.res.tag = "Ready"
                    THEN [calls |-> run.calls + 1,
                          picks |-> [run.picks EXCEPT ![out.res.val] = @ + 1]]
                    ELSE NoRun
        IN
        /\ pc = "idle"
        /\ run.calls < MaxCalls
        /\ streams' = out.streams
        /\ conns' = DropEvicted(conns, streams, out.streams)
        /\ last' = Last("next_ready", [start |-> start], out.res,
                        [run |-> run2, probed |-> out.probed])
        /\ UNCHANGED <<chans, backlog, pc, rd, next_node_id, prev_node_id, hist>>

\* Afc::send_ctrl with what the network does during the call: dns is the
\* answer of lookup_host (None: it failed), `to` the address a connect
\* reaches ("fail": none), write_ok whether the write and flush go through.
SendCtrlCmd(cmd, net_id, afc_id, chan_id, dns, to, write_ok) ==
    LET out == send_ctrl(chans, streams, conns, net_id, afc_id, chan_id, dns, to, write_ok)
        enc == encode(Msg("Ctrl", V1, IdBytes("team"), cmd))
    IN
    /\ pc = "idle"
    /\ CanOpen(conns)
    /\ chans' = out.chans
    /\ streams' = out.streams
    /\ conns' = out.conns
    /\ hist' = IF afc_id \in DOMAIN chans \/ out.res.tag # "Ok"
               THEN hist ELSE [hist EXCEPT ![afc_id].cur = -1]
    /\ last' = Last("send_ctrl",
                    [id |-> afc_id, net_id |-> net_id, chan_id |-> chan_id],
                    out.res,
                    [present |-> afc_id \in DOMAIN chans,
                     opened |-> out.opened, closed |-> out.closed, wrote |-> out.wrote,
                     remote |-> IF out.opened = 0 THEN "none" ELSE to,
                     wire |-> IF out.wrote = 0 THEN <<>> ELSE enc.val])
    /\ UNCHANGED <<backlog, pc, rd, next_node_id, prev_node_id>>

\* send_ctrl with the cmd of the specifications.
SendCtrlWith(net_id, afc_id, chan_id, dns, to, write_ok) ==
    SendCtrlCmd(SmallCmd, net_id, afc_id, chan_id, dns, to, write_ok)

\* The network's part in a send_ctrl call, each distinct course of the call
\* once: no connect happens after a failed lookup or when a resolved address
\* has a stream, and no write happens after a failed connect.
SendCtrl(net_id, afc_id, chan_id) ==
    \E dns \in {None} \cup {Some(r) : r \in DnsAnswers(net_id)},
       to \in {"fail"} \cup HostAddrs(net_id),
       write_ok \in BOOLEAN :
        /\ to # "fail" => IsSome(dns) /\ ~IsSome(find_contained(Unwrap(dns), streams))
        /\ ~write_ok => IsSome(dns) /\ (to # "fail" \/ IsSome(find_contained(Unwrap(dns), streams)))
        /\ SendCtrlWith(net_id, afc_id, chan_id, dns, to, write_ok)

\* Afc::send_data with what the sealer and the network do during the call,
\* each distinct course of the call once. datagram is header || ciphertext
\* as the sealer leaves it.
SendDataWith(id, datagram) ==
    \E seal_ok \in BOOLEAN, to \in {"fail"} \cup Addrs, write_ok \in BOOLEAN :
        LET out == send_data(chans, streams, conns, id, seal_ok, to, write_ok)
            enc == encode(Msg("Data", V1, IdBytes(id), datagram))
            connects == id \in DOMAIN chans /\ seal_ok /\ ~contains(streams, chans[id].addr)
        IN  /\ pc = "idle"
            /\ CanOpen(conns)
            /\ to # "fail" => connects /\ to \in HostAddrs(chans[id].net_id)
            /\ ~write_ok => id \in DOMAIN chans /\ seal_ok /\ (connects => to # "fail")
            /\ ~seal_ok => id \in DOMAIN chans
            /\ streams' = out.streams
            /\ conns' = out.conns
            /\ last' = Last("send_data", [id |-> id], out.res,
                            [opened |-> out.opened, closed |-> out.closed, wrote |-> out.wrote,
                             remote |-> IF out.opened = 0 THEN "none" ELSE to,
                             wire |-> IF out.wrote = 0 THEN <<>> ELSE enc.val])
            /\ UNCHANGED <<chans, backlog, pc, rd, next_node_id, prev_node_id, hist>>

\* send_data with the datagram of the specifications.
SendData(id) == SendDataWith(id, SmallDatagram)

\* What a read_msg call leaves behind when it returns or is polled. A call
\* that returns a message takes the oldest message off the history of the
\* connection; `expect` is that message.
ReadStep(out) ==
    LET sid == out.rd.sid
        returned == out.done /\ out.res.tag = "Ok"
        expect == IF out.done /\ conns[sid].msgs # <<>> THEN Some(Head(conns[sid].msgs)) ELSE None
    IN
    /\ conns' = [conns EXCEPT ![sid] =
                    [out.conn EXCEPT !.msgs = IF returned /\ @ # <<>> THEN Tail(@) ELSE @]]
    /\ pc' = IF out.done THEN "idle" ELSE "read_msg"
    /\ rd' = IF out.done THEN NoRead ELSE out.rd
    /\ last' = Last("read_msg", [addr |-> out.rd.addr], out.res,
                    [sid |-> sid, consumed |-> out.rd.consumed,
                     alloc |-> out.rd.alloc, hdr |-> out.rd.hdr, expect |-> expect])
    /\ UNCHANGED <<chans, streams, backlog, next_node_id, prev_node_id, hist>>

\* Afc::read_msg is called.
ReadMsgCall(addr) ==
    /\ pc = "idle"
    /\ LET s == get_mut(streams, addr) IN
       IF ~IsSome(s)
       THEN /\ last' = Last("read_msg", [addr |-> addr], Res("StreamNotFound", addr),
                            [sid |-> 0, consumed |-> 0, alloc |-> -1, hdr |-> <<>>,
                             expect |-> None])
            /\ UNCHANGED <<chans, netvars, pc, rd, next_node_id, prev_node_id, hist>>
       ELSE ReadStep(read_msg_run(conns[Unwrap(s)],
                                  [NoRead EXCEPT !.addr = addr, !.sid = Unwrap(s),
                                                 !.phase = "readable"]))

\* A suspended read_msg call is polled again.
ReadMsgResume ==
    /\ pc = "read_msg"
    /\ ReadStep(read_msg_run(conns[rd.sid], rd))

\* A suspended read_msg call is dropped by its caller.
ReadMsgCancel ==
    /\ pc = "read_msg"
    /\ pc' = "idle"
    /\ rd' = NoRead
    /\ last' = Last("read_msg", [addr |-> rd.addr], Res("Cancelled", Unit),
                    [sid |-> rd.sid, consumed |-> rd.consumed, alloc |-> rd.alloc,
                     hdr |-> rd.hdr, expect |-> None])
    /\ UNCHANGED <<chans, netvars, next_node_id, prev_node_id, hist>>

\* ------------------------------------------------------------------------
\* The environment.
\* ------------------------------------------------------------------------
EnvStep ==
    /\ last' = EnvLast
    /\ UNCHANGED <<chans, streams, pc, rd, next_node_id, prev_node_id, hist>>

\* A peer at address a connects to the listener. No two live connections to
\* the listener come from one remote address.
PeerConnect(a) ==
    /\ CanOpen(conns)
    /\ \A sid \in Sids : ~(conns[sid].st = "open" /\ conns[sid].dir = "in" /\ conns[sid].peer = a)
    /\ conns' = [conns EXCEPT ![NewSid(conns)] = Conn("open", "in", a, <<>>)]
    /\ backlog' = Append(backlog, NewSid(conns))
    /\ EnvStep

\* The peer of connection sid sends bytes.
PeerSend(sid, bytes) ==
    /\ conns[sid].st = "open"
    /\ conns[sid].sent < MaxSend
    /\ conns' = [conns EXCEPT ![sid].rx = BCat(@, bytes), ![sid].sent = @ + 1]
    /\ UNCHANGED backlog
    /\ EnvStep

\* The peer of connection sid, an engine like this one, sends message m: it
\* writes the envelope send_ctrl and send_data write.
PeerSendMsg(sid, m) ==
    /\ conns[sid].st = "open"
    /\ conns[sid].sent < MaxSend
    /\ conns' = [conns EXCEPT ![sid].net = BCat(@, encode(m).val),
                               ![sid].msgs = Append(@, m),
                               ![sid].sent = @ + 1]
    /\ UNCHANGED backlog
    /\ EnvStep

\* The first k bytes in flight on connection sid arrive.
Deliver(sid, k) ==
    /\ conns[sid].st = "open"
    /\ conns[sid].net # <<>>
    /\ conns' = [conns EXCEPT ![sid].rx = BCat(@, BTake(conns[sid].net, k)),
                               ![sid].net = BDrop(@, k)]
    /\ UNCHANGED backlog
    /\ EnvStep

\* The peer of connection sid closes it.
PeerClose(sid) ==
    /\ conns[sid].st = "open"
    /\ conns' = [conns EXCEPT ![sid].st = "eof", ![sid].sent = 0]
    /\ UNCHANGED backlog
    /\ EnvStep

\* Connection sid is reset.
PeerReset(sid) ==
    /\ conns[sid].st \in {"open", "eof"}
    /\ conns' = [conns EXCEPT ![sid].st = "err", ![sid].rx = <<>>, ![sid].sent = 0,
                               ![sid].net = <<>>, ![sid].msgs = <<>>]
    /\ UNCHANGED backlog
    /\ EnvStep

\* Afc::new
Init ==
    /\ chans = <<>>
    /\ streams = <<>>
    /\ conns = [sid \in Sids |-> FreeConn]
    /\ backlog = <<>>
    /\ pc = "idle"
    /\ rd = NoRead
    /\ next_node_id = 0
    /\ prev_node_id = -1
    /\ hist = [id \in AfcIds |-> NoHist]
    /\ last = NoLast

\* The channels the callers of the specifications create: the host name and
\* the channel id of each, and the address add_channel is given for it.
NewChans ==
    {[net_id |-> "h1", chan_id |-> [node_id |-> 0, label |-> "l1"], addr |-> "a1"],
     [net_id |-> "h2", chan_id |-> [node_id |-> 0, label |-> "l2"], addr |-> "a2"]}

\* What a peer sends in the network specification: half a wire header.
NetChunks == {Fill(0, 4)}

\* What a peer sends in the wire specification: a whole envelope, headers
\* with a wrong magic, headers with lengths around MAX_MSG_SIZE, and half a
\* header.
SampleMsgs == {Msg("Ctrl", V1, IdBytes("team"), SmallCmd)}
U32_MAX == U32(65535, 65535)
WireChunks ==
    {envelope(to_allocvec(m)) : m \in SampleMsgs}
    \cup {BCat(Bytes(<<88, 89, 90, 0>>), u32_to_le_bytes(U32Of(3))),
          BCat(Bytes(<<65, 70, 67, 1>>), u32_to_le_bytes(U32_MAX))}
    \cup {BCat(WIRE_MAGIC, u32_to_le_bytes(len)) :
            len \in {U32Of(MAX_MSG_SIZE), U32Of(MAX_MSG_SIZE + 1), U32_MAX}}
    \cup {WIRE_MAGIC}

\* Channel table: add_channel, remove_channel, open_data and send_ctrl, over
\* a network that answers each lookup with the one address of the channel
\* and writes without error.
ChanNext ==
    \/ \E id \in AfcIds, c \in NewChans : AddChannel(id, c.net_id, c.chan_id, c.addr)
    \/ \E id \in AfcIds : RemoveChannel(id)
    \/ \E data \in Datas : OpenData(data)
    \/ \E c \in NewChans, connect_ok \in BOOLEAN :
           SendCtrlWith(c.net_id, "idA", c.chan_id, Some(<<c.addr>>),
                        IF connect_ok THEN c.addr ELSE "fail", TRUE)

SpecChan == Init /\ [][ChanNext]_vars

\* Node ids: get_next_node_id, and channels created with the ids it returns.
NodeNext ==
    \/ GetNextNodeId
    \/ \E id \in AfcIds, l \in Labels :
           /\ prev_node_id >= 0
           /\ AddChannel(id, "h1", [node_id |-> prev_node_id, label |-> l], "a1")
    \/ \E id \in AfcIds : RemoveChannel(id)

SpecNode == Init /\ [][NodeNext]_vars

\* Stream table: poll, send_ctrl, send_data, and the peers, each of which
\* sends up to a whole wire header.
NetNext ==
    \/ Poll
    \/ \E c \in NewChans : SendCtrl(c.net_id, "idA", c.chan_id)
    \/ SendData("idA")
    \/ \E a \in Addrs : PeerConnect(a)
    \/ \E sid \in Sids, bytes \in NetChunks :
           /\ BLen(conns[sid].rx) < WIRE_HEADER_SIZE
           /\ PeerSend(sid, bytes)
    \/ \E sid \in Sids : PeerClose(sid)
    \/ \E sid \in Sids : PeerReset(sid)

SpecNet == Init /\ [][NetNext]_vars

\* poll: the listener and the streams, over a network that answers each
\* lookup with the one address of the channel and writes without error.
PollNext ==
    \/ Poll
    \/ \E c \in NewChans, connect_ok \in BOOLEAN :
           SendCtrlWith(c.net_id, "idA", c.chan_id, Some(<<c.addr>>),
                        IF connect_ok /\ ~contains(streams, c.addr) THEN c.addr ELSE "fail", TRUE)
    \/ \E a \in Addrs : PeerConnect(a)
    \/ \E sid \in Sids, bytes \in NetChunks :
           /\ BLen(conns[sid].rx) < WIRE_HEADER_SIZE
           /\ PeerSend(sid, bytes)
    \/ \E sid \in Sids : PeerClose(sid)
    \/ \E sid \in Sids : PeerReset(sid)

SpecPoll == Init /\ [][PollNext]_vars

\* The streams of the tables next_ready is run on by itself: the peer
\* addresses, in insertion order, and what the probe of a stream finds: an
\* error, a whole header, half a header, or nothing buffered.
ProbeAddrs == <<"a1", "a2", "a3", "a4", "a5", "a6">>
ProbeSids == 1..MaxStreams
ProbeKinds == {"err", "ready", "half", "idle"}
ProbeConn(kind, addr) ==
    IF kind = "err" THEN Conn("err", "in", addr, <<>>)
    ELSE IF kind = "ready" THEN Conn("open", "in", addr, Fill(0, WIRE_HEADER_SIZE))
    ELSE IF kind = "half" THEN Conn("open", "in", addr, Fill(0, WIRE_HEADER_SIZE \div 2))
    ELSE Conn("open", "in", addr, <<>>)

\* An engine whose stream table holds up to MaxStreams accepted streams, in
\* every combination of what their probes find.
ProbeInit ==
    \E n \in 0..MaxStreams :
        \E kinds \in [1..n -> ProbeKinds] :
            /\ streams = [i \in 1..n |-> Entry(ProbeAddrs[i], i)]
            /\ conns = [sid \in ProbeSids |->
                            IF sid <= n THEN ProbeConn(kinds[sid], ProbeAddrs[sid]) ELSE FreeConn]
            /\ chans = <<>>
            /\ backlog = <<>>
            /\ pc = "idle"
            /\ rd = NoRead
            /\ next_node_id = 0
            /\ prev_node_id = -1
            /\ hist = [id \in AfcIds |-> NoHist]
            /\ last = NoLast

\* TcpStreams::next_ready on such a table, with the random start index
\* start; the streams it evicts are dropped.
NextReadyCall ==
    \E start \in 0..(IF streams = <<>> THEN 0 ELSE Len(streams) - 1) :
        LET out == next_ready(streams, conns, start) IN
        /\ pc = "idle"
        /\ streams' = out.streams
        /\ conns' = [sid \in DOMAIN conns |->
                        IF sid \in StreamSids(streams) \ StreamSids(out.streams)
                        THEN FreeConn ELSE conns[sid]]
        /\ last' = Last("next_ready", [start |-> start], out.res,
                        [run |-> NoRun, probed |-> out.probed])
        /\ UNCHANGED <<chans, backlog, pc, rd, next_node_id, prev_node_id, hist>>

ProbeNext == NextReadyCall

SpecProbe == ProbeInit /\ [][ProbeNext]_vars

\* What a peer sends on a stream in the stream table specification, one
\* piece for each connection and on one connection at a time: an envelope, an envelope whose body is no
\* message, headers with a wrong magic and with a length above the cap, each
\* followed by a body, and half a header.
TableChunks ==
    {envelope(to_allocvec(m)) : m \in SampleMsgs}
    \cup {envelope(Bytes(<<9>>)),
          BCat(BCat(Bytes(<<88, 89, 90, 0>>), u32_to_le_bytes(U32Of(3))), Fill(0, 3)),
          BCat(BCat(WIRE_MAGIC, u32_to_le_bytes(U32Of(MAX_MSG_SIZE + 1))), Fill(0, 3)),
          WIRE_MAGIC}

\* The stream table under every operation that uses it: poll (with its
\* next_ready), read_msg with every outcome, send_ctrl and send_data to a
\* host with two addresses over a network in which lookups, connects and
\* writes fail.
TableNext ==
    \/ Poll
    \/ ReadMsgCall("a1")
    \/ ReadMsgResume
    \/ ReadMsgCancel
    \/ \E c \in {n \in NewChans : n.net_id = "h1"} : SendCtrl(c.net_id, "idA", c.chan_id)
    \/ SendData("idA")
    \/ backlog = <<>> /\ PeerConnect("a1")
    \/ \E sid \in Sids, bytes \in TableChunks :
           /\ conns[sid].sent = 0
           /\ \A other \in Sids : conns[other].rx = <<>>
           /\ PeerSend(sid, bytes)
    \/ \E sid \in Sids : PeerReset(sid)

SpecTable == Init /\ [][TableNext]_vars

\* next_ready: streams accepted by poll, on which peers send, close and
\* reset, are probed by repeated next_ready calls.
ReadyNext ==
    \/ NextReady
    \/ Poll
    \/ \E a \in Addrs : PeerConnect(a)
    \/ \E sid \in Sids, bytes \in NetChunks :
           /\ BLen(conns[sid].rx) < WIRE_HEADER_SIZE
           /\ PeerSend(sid, bytes)
    \/ \E sid \in Sids : PeerClose(sid)
    \/ \E sid \in Sids : PeerReset(sid)

SpecReady == Init /\ [][ReadyNext]_vars

\* What the callers of the sending specification send: a small cmd or
\* datagram, the largest one whose serialized message fits MAX_MSG_SIZE (tag,
\* version, 32-byte id and a 4-byte length come before it), and one byte more.
SendBodies(small) ==
    {small, Fill(0, MAX_MSG_SIZE - (2 + ID_SIZE + 4)), Fill(0, MAX_MSG_SIZE - (2 + ID_SIZE + 4) + 1)}

\* Sending: send_ctrl and send_data with messages of all sizes, over a
\* network that answers each lookup with the one address of the channel.
SendNext ==
    \/ \E c \in NewChans, cmd \in SendBodies(SmallCmd), connect_ok \in BOOLEAN, write_ok \in BOOLEAN :
           /\ ~write_ok => (connect_ok \/ contains(streams, c.addr))
           /\ SendCtrlCmd(cmd, c.net_id, "idA", c.chan_id, Some(<<c.addr>>),
                          IF connect_ok /\ ~contains(streams, c.addr) THEN c.addr ELSE "fail",
                          write_ok)
    \/ \E datagram \in SendBodies(SmallDatagram) : SendDataWith("idA", datagram)
    \/ RemoveChannel("idA")
    \/ Poll
    \/ \E sid \in Sids : PeerReset(sid)

SpecSend == Init /\ [][SendNext]_vars

\* The messages a peer engine sends: Ctrl and Data, an empty and a small
\* byte string, and the longest cmd whose message fits MAX_MSG_SIZE.
TripMsgs ==
    {Msg("Ctrl", V1, IdBytes("team"), SmallCmd),
     Msg("Ctrl", V1, IdBytes("team"), Fill(0, MAX_MSG_SIZE - (2 + ID_SIZE + 4))),
     Msg("Data", V1, IdBytes("idA"), SmallDatagram),
     Msg("Data", V1, IdBytes("idB"), <<>>)}

\* The number of bytes the envelopes of the messages ms take on the wire.
RECURSIVE WireLen(_)
WireLen(ms) == IF ms = <<>> THEN 0 ELSE BLen(encode(Head(ms)).val) + WireLen(Tail(ms))

\* The next k bytes in flight on connection sid lie within the header of one
\* envelope (bodies arrive in one piece, to keep the state space small).
HeaderPiece(sid, k) ==
    \E j \in 1..Len(conns[sid].msgs) :
        LET whole == WireLen(SubSeq(conns[sid].msgs, j, Len(conns[sid].msgs)))
            arrived == whole - BLen(conns[sid].net)
        IN arrived >= 0 /\ arrived + k <= WIRE_HEADER_SIZE

\* Round trip: a peer engine writes envelopes, which arrive whole or in
\* pieces, and read_msg calls that are not dropped read them.
TripNext ==
    \/ /\ \A sid \in Sids : conns[sid].st = "free"
       /\ PeerConnect("a1")
    \/ Poll
    \/ ReadMsgCall("a1")
    \/ ReadMsgResume
    \/ \E sid \in Sids, m \in TripMsgs : PeerSendMsg(sid, m)
    \/ \E sid \in Sids, k \in {WIRE_HEADER_SIZE \div 2, WIRE_HEADER_SIZE} :
           HeaderPiece(sid, k) /\ Deliver(sid, k)
    \/ \E sid \in Sids : Deliver(sid, BLen(conns[sid].net))
    \/ \E sid \in Sids : conns[sid].net = <<>> /\ PeerClose(sid)
    \/ \E sid \in Sids : PeerReset(sid)

SpecTrip == Init /\ [][TripNext]_vars

\* The messages opened on a channel that may be absent: one of each version
\* that would open, and one that does not parse.
AbsentDatas ==
    {d \in Datas : \/ d.ciphertext.parse = "err"
                   \/ (d.ciphertext.open = "ok" /\ d.ciphertext.label = "l1" /\ d.ciphertext.seq = 0)}

\* Sending on existing and absent channels: channel idA comes from send_ctrl
\* and goes with remove_channel; data is sent and opened on both ids.
DataNext ==
    \/ \E c \in NewChans, connect_ok \in BOOLEAN :
           SendCtrlWith(c.net_id, "idA", c.chan_id, Some(<<c.addr>>),
                        IF connect_ok /\ ~contains(streams, c.addr) THEN c.addr ELSE "fail", TRUE)
    \/ RemoveChannel("idA")
    \/ \E id \in AfcIds : SendData(id)
    \/ \E data \in AbsentDatas : OpenData(data)
    \/ Poll
    \/ \E sid \in Sids : PeerReset(sid)

SpecData == Init /\ [][DataNext]_vars

\* send_ctrl over a network in which lookups, connects, writes and
\* connections fail.
CtrlNext ==
    \/ \E c \in NewChans, id \in AfcIds : SendCtrl(c.net_id, id, c.chan_id)
    \/ \E id \in AfcIds : RemoveChannel(id)
    \/ Poll
    \/ \E sid \in Sids : PeerReset(sid)

SpecCtrl == Init /\ [][CtrlNext]_vars

\* The messages opened in the engine specification: the ones that decrypt
\* with the label of the first channel, and one that does not parse.
EngineDatas ==
    {d \in Datas : /\ d.version = V1
                   /\ \/ d.ciphertext.parse = "err"
                      \/ (d.ciphertext.open = "ok" /\ d.ciphertext.label = "l1")}

\* Every operation of the engine, with one connection at a time (a connect
\* succeeds only when no other connection is open) and one envelope for
\* each connection. Channel idA is the one
\* in use: it is added by add_channel and send_ctrl, and data is sent on it
\* over the stream send_ctrl or the peer opened;
\* channel idB is added and removed, and no message opens on it.
EngineNext ==
    \/ \E c \in NewChans :
           AddChannel(IF c.addr = "a1" THEN "idA" ELSE "idB", c.net_id, c.chan_id, c.addr)
    \/ \E id \in AfcIds : RemoveChannel(id)
    \/ \E data \in EngineDatas : OpenData(data)
    \/ next_node_id = 0 /\ GetNextNodeId
    \/ Poll
    \/ \E c \in {n \in NewChans : n.addr = "a1"}, connect_ok \in BOOLEAN, write_ok \in BOOLEAN :
           /\ connect_ok => FreeSids(conns) = Sids
           /\ ~write_ok => (connect_ok \/ contains(streams, c.addr))
           /\ SendCtrlWith(c.net_id, "idA", c.chan_id,
                           Some(<<c.addr>>), IF connect_ok THEN c.addr ELSE "fail", write_ok)
    \/ contains(streams, "a1") /\ SendData("idA")
    \/ ReadMsgCall("a1")
    \/ ReadMsgResume
    \/ ReadMsgCancel
    \/ FreeSids(conns) = Sids /\ PeerConnect("a1")
    \/ \E sid \in Sids, m \in SampleMsgs :
           /\ conns[sid].sent = 0
           /\ PeerSend(sid, encode(m).val)
    \/ \E sid \in Sids : PeerReset(sid)

SpecEngine == Init /\ [][EngineNext]_vars

\* Wire format: read_msg on the connection of one peer at a time, which
\* sends well-formed and malformed envelopes.
WireNext ==
    \/ /\ \A sid \in Sids : conns[sid].st = "free"
       /\ PeerConnect("a1")
    \/ Poll
    \/ \E addr \in Addrs : ReadMsgCall(addr)
    \/ ReadMsgResume
    \/ ReadMsgCancel
    \/ \E sid \in Sids, bytes \in WireChunks : PeerSend(sid, bytes)
    \/ \E sid \in Sids : PeerClose(sid)
    \/ \E sid \in Sids : PeerReset(sid)

SpecWire == Init /\ [][WireNext]_vars

\* The whole system.
Next ==
    \/ \E id \in AfcIds, c \in NewChans : AddChannel(id, c.net_id, c.chan_id, c.addr)
    \/ \E id \in AfcIds : RemoveChannel(id)
    \/ \E data \in Datas : OpenData(data)
    \/ GetNextNodeId
    \/ Poll
    \/ \E c \in NewChans, id \in AfcIds : SendCtrl(c.net_id, id, c.chan_id)
    \/ \E id \in AfcIds : SendData(id)
    \/ \E addr \in Addrs : ReadMsgCall(addr)
    \/ ReadMsgResume
    \/ ReadMsgCancel
    \/ \E a \in Addrs : PeerConnect(a)
    \/ \E sid \in Sids, bytes \in WireChunks : PeerSend(sid, bytes)
    \/ \E sid \in Sids : PeerClose(sid)
    \/ \E sid \in Sids : PeerReset(sid)

Spec == Init /\ [][Next]_vars

\* ------------------------------------------------------------------------
\* Properties of the channel table (SpecChan).
\* ------------------------------------------------------------------------

\* The open_data call that completed last handed the opener's sequence on
\* for the replay test: the opener returned (label, seq) and the label is
\* the channel's.
Delivered == last.op = "open_data" /\ last.pre.opened /\ last.res.tag # "Bug"

\* C1 as stated: once open_data has accepted sequence s under an afc_id, every
\* later open_data under that afc_id whose message carries s' < s + 1 returns
\* MsgReplayed(s'), whatever add_channel, remove_channel, send_ctrl and
\* open_data calls came in between.
C1_ReplayedWhateverHappened ==
    (Delivered /\ last.pre.hist.ever >= 0
        /\ last.arg.ciphertext.seq < last.pre.hist.ever + 1)
    => last.res = Res("MsgReplayed", last.arg.ciphertext.seq)

\* C1, amended: once open_data has accepted sequence s on a channel entry,
\* every later open_data on that entry whose message carries s' < s + 1
\* returns MsgReplayed(s'), for as long as the entry stays in the table
\* (add_channel and send_ctrl on the present id, and open_data, in between).
C1_ReplayedWhileEntryStays ==
    (Delivered /\ last.pre.hist.cur >= 0
        /\ last.arg.ciphertext.seq < last.pre.hist.cur + 1)
    => last.res = Res("MsgReplayed", last.arg.ciphertext.seq)

\* open_data rejected the replay of a sequence accepted on the present entry.
C1_ReplayRejected ==
    /\ Delivered
    /\ last.pre.hist.cur >= 0
    /\ last.arg.ciphertext.seq <= last.pre.hist.cur
    /\ last.res.tag = "MsgReplayed"

\* C2: when open_data accepts the largest sequence, next_min_seq becomes
\* EXHAUSTED (None, not 0), and from then on every open_data that reaches
\* that entry returns EndOfChannel and leaves the table as it is.
C2_Exhaustion ==
    [][last'.op = "open_data" =>
        LET id == last'.arg.afc_id IN
        /\ (last'.res.tag = "Ok" /\ last'.arg.ciphertext.seq = SeqMax)
              => (id \in DOMAIN chans' /\ chans'[id].next_min_seq = None)
        /\ (last'.arg.version = V1 /\ id \in DOMAIN chans /\ chans[id].next_min_seq = None)
              => (last'.res = Res("EndOfChannel", Unit) /\ chans' = chans)]_vars

\* An open_data on an entry that accepted the largest sequence returned
\* EndOfChannel.
C2_EndOfChannelSeen ==
    /\ last.op = "open_data"
    /\ last.res.tag = "EndOfChannel"
    /\ hist[last.arg.afc_id].cur = SeqMax

RemoteOf(strs, cs, i) == cs[strs[i].sid].peer

\* C4 as stated: every entry of the stream table is keyed by the remote
\* address of the stream it holds, and no two entries hold streams with the
\* same remote address.
C4_KeyedByRemote ==
    /\ \A i \in 1..Len(streams) : RemoteOf(streams, conns, i) = streams[i].addr
    /\ \A i, j \in 1..Len(streams) :
           i # j => RemoteOf(streams, conns, i) # RemoteOf(streams, conns, j)

\* C5 as stated: when send_ctrl or send_data connects a new stream, or poll
\* accepts one, whose remote address already has an entry in the table, the
\* entry keeps its stream, the table is unchanged, and the new stream is
\* handed back and closed.
C5_DuplicateHandedBack ==
    [][/\ (last'.op \in {"send_ctrl", "send_data"} /\ last'.pre.opened # 0
             /\ contains(streams, last'.pre.remote))
          => /\ streams' = streams
             /\ last'.pre.closed = last'.pre.opened
             /\ conns'[last'.pre.opened] = FreeConn
       /\ (last'.op = "poll" /\ last'.res.tag = "Accept"
             /\ contains(streams, last'.res.val)
             /\ stream_is_ready(conns[Unwrap(get_mut(streams, last'.res.val))]) # "err")
          => /\ get_mut(streams', last'.res.val) = get_mut(streams, last'.res.val)
             /\ Keys(streams') \subseteq Keys(streams)
             /\ conns'[last'.pre.accepted] = FreeConn]_vars

\* C7: a poll called while a stream of the table is ready and a connection
\* waits in the listener returns Msg(addr) for a ready stream of the table and
\* accepts nothing: the listener keeps the connection and the table gains no
\* entry.
C7_BiasedPoll ==
    [][(/\ last'.op = "poll"
        /\ backlog # <<>>
        /\ \E i \in 1..Len(streams) : stream_is_ready(conns[streams[i].sid]) = "ready")
       => /\ last'.res.tag = "Msg"
          /\ contains(streams, last'.res.val)
          /\ stream_is_ready(conns[Unwrap(get_mut(streams, last'.res.val))]) = "ready"
          /\ last'.pre.accepted = 0
          /\ backlog' = backlog
          /\ Keys(streams') \subseteq Keys(streams)]_vars

\* poll returned Msg while a connection was waiting in the listener.
C7_MsgBeforeAccept ==
    /\ last.op = "poll"
    /\ last.res.tag = "Msg"
    /\ backlog # <<>>

\* C8 as stated: when poll returns Accept(addr), the stream the table holds
\* under addr is the accepted one.
C8_AcceptedIsStored ==
    (last.op = "poll" /\ last.res.tag = "Accept")
    => get_mut(streams, last.res.val) = Some(last.pre.accepted)

\* C8, amended: when poll returns Accept(addr), the table has an entry under
\* addr. It holds the accepted stream when addr had no entry; when addr had
\* an entry whose stream is not in error, that stream is kept and the
\* accepted connection is closed.
C8_AcceptKeepsExisting ==
    [][(last'.op = "poll" /\ last'.res.tag = "Accept") =>
        LET addr == last'.res.val
            acc == last'.pre.accepted
        IN  /\ contains(streams', addr)
            /\ ~contains(streams, addr) => get_mut(streams', addr) = Some(acc)
            /\ (contains(streams, addr)
                  /\ stream_is_ready(conns[Unwrap(get_mut(streams, addr))]) # "err")
               => /\ get_mut(streams', addr) = get_mut(streams, addr)
                  /\ conns'[acc] = FreeConn]_vars

\* poll returned Accept(addr) and the table holds another stream under addr:
\* the accepted connection is gone.
C8_AcceptedDropped ==
    /\ last.op = "poll"
    /\ last.res.tag = "Accept"
    /\ contains(streams, last.res.val)
    /\ get_mut(streams, last.res.val) # Some(last.pre.accepted)
    /\ conns[last.pre.accepted] = FreeConn

\* ------------------------------------------------------------------------
\* Properties of the node-id counter (SpecNode).
\* ------------------------------------------------------------------------

\* C6 as stated: every get_next_node_id returns a value, the first one 0 and
\* each later one larger than the one returned before.
C6_StrictlyIncreasing ==
    last.op = "get_next_node_id"
    => /\ last.res.tag = "Ok"
       /\ last.res.val > last.pre.prev
       /\ last.pre.prev = -1 => last.res.val = 0

\* ------------------------------------------------------------------------
\* Properties of the wire format (SpecWire).
\* ------------------------------------------------------------------------

\* The read_msg call that acted last has read a whole wire header.
HeaderRead == last.op = "read_msg" /\ BLen(last.pre.hdr) = WIRE_HEADER_SIZE
\* Its magic and its length field.
MagicRead == BTake(last.pre.hdr, 4)
LenRead == u32_from_le_bytes(BDrop(last.pre.hdr, 4))

\* C9: a read_msg that reads a header whose first four bytes are not "AFC\0"
\* returns InvalidMagic with those four bytes (as a little-endian u32),
\* whatever the length field holds; it has taken the 8 bytes of the header
\* from the stream and no more, and has allocated no body buffer.
C9_InvalidMagic ==
    (HeaderRead /\ MagicRead # Bytes(<<65, 70, 67, 0>>))
    => /\ last.res = Res("InvalidMagic", u32_from_le_bytes(MagicRead))
       /\ last.pre.consumed = WIRE_HEADER_SIZE
       /\ last.pre.alloc = -1

\* read_msg returned InvalidMagic for a header that shares its first bytes
\* with the magic and holds the largest length, with bytes left in the stream.
C9_InvalidMagicSeen ==
    /\ HeaderRead
    /\ last.res.tag = "InvalidMagic"
    /\ BAt(MagicRead, 1) = 65
    /\ LenRead = U32_MAX
    /\ conns[last.pre.sid].rx # <<>>

\* C10: a read_msg that reads a header with the magic and a length above
\* MAX_MSG_SIZE returns MsgTooLarge{got = the length, max = MAX_MSG_SIZE},
\* having taken only the 8 header bytes and allocated no body buffer; with a
\* length of MAX_MSG_SIZE or less it does not return MsgTooLarge and
\* allocates a body buffer of that length.
C10_LengthCap ==
    (HeaderRead /\ MagicRead = Bytes(<<65, 70, 67, 0>>))
    => IF LenRead.hi > 160 \/ (LenRead.hi = 160 /\ LenRead.lo > 0)
       THEN /\ last.res = Res("MsgTooLarge", [got |-> LenRead, max |-> U32(160, 0)])
            /\ last.pre.consumed = WIRE_HEADER_SIZE
            /\ last.pre.alloc = -1
       ELSE /\ last.res.tag # "MsgTooLarge"
            /\ last.pre.alloc = U32ToNat(LenRead)

\* read_msg returned MsgTooLarge for the length MAX_MSG_SIZE + 1.
C10_TooLargeSeen ==
    /\ HeaderRead
    /\ last.res.tag = "MsgTooLarge"
    /\ LenRead = U32(160, 1)

\* ------------------------------------------------------------------------
\* Properties of sending (SpecSend).
\* ------------------------------------------------------------------------

\* The length prefix of an envelope.
PrefixOf(wire) == u32_from_le_bytes(BTake(BDrop(wire, 4), 4))

\* C11 as stated: whatever send_ctrl or send_data writes to a stream is an
\* envelope whose length prefix is at most MAX_MSG_SIZE, and whose body has
\* that length: a message with a larger body is not written.
C11_WrittenFitsCap ==
    (last.op \in {"send_ctrl", "send_data"} /\ last.pre.wire # <<>>)
    => /\ ~(PrefixOf(last.pre.wire).hi > 160
            \/ (PrefixOf(last.pre.wire).hi = 160 /\ PrefixOf(last.pre.wire).lo > 0))
       /\ BLen(last.pre.wire) = WIRE_HEADER_SIZE + U32ToNat(PrefixOf(last.pre.wire))

\* ------------------------------------------------------------------------
\* Properties of the round trip (SpecTrip).
\* ------------------------------------------------------------------------

\* The read_msg call that acted last returned (it is not suspended).
ReadReturned == last.op = "read_msg" /\ last.res.tag \notin {"Pending", "Cancelled"}

\* C12: on a stream on which a peer engine writes envelopes of messages that
\* fit MAX_MSG_SIZE, every read_msg that returns while a written message is
\* unread returns Ok with the oldest unread message, equal to the one
\* written; so the messages come back one per call in the order written.
C12_RoundTrip ==
    (ReadReturned /\ IsSome(last.pre.expect))
    => last.res = Res("Ok", Unwrap(last.pre.expect))

\* read_msg returned the longest message while a later message is unread.
C12_LongestReturned ==
    /\ ReadReturned
    /\ last.res.tag = "Ok"
    /\ BLen(last.res.val.bytes) > 65536
    /\ conns[last.pre.sid].msgs # <<>>

\* ------------------------------------------------------------------------
\* Cancellation of read_msg (SpecWire).
\* ------------------------------------------------------------------------

\* C13: when a read_msg call is dropped at a suspension point, the call has
\* consumed no byte of the stream (the read position is where the call
\* found it, at an envelope boundary), or the stream has left the table.
C13_CancelKeepsFraming ==
    (last.op = "read_msg" /\ last.res.tag = "Cancelled")
    => \/ last.pre.consumed = 0
       \/ ~contains(streams, last.arg.addr)

\* ------------------------------------------------------------------------
\* Selection by next_ready (SpecReady).
\* ------------------------------------------------------------------------

\* C14 as stated: after k * N consecutive next_ready calls made while the N
\* streams of the table were all ready, every stream has been selected at
\* least k \div 2 times.
C14_HalfShare ==
    \A k \in 1..MaxCalls :
        (/\ last.op = "next_ready"
         /\ last.pre.run.calls = k * Len(streams))
        => \A a \in Keys(streams) : last.pre.run.picks[a] >= k \div 2

\* C14, amended: a next_ready call made while every stream of the table is
\* ready selects the stream at the random start index, whatever the earlier
\* calls selected; the number of times a stream is selected in a run of
\* calls is the number of times the start index fell on it.
C14_StartSelected ==
    (last.op = "next_ready" /\ last.pre.run.calls > 0)
    => /\ last.res = Res("Ready", streams[last.arg.start + 1].addr)
       /\ last.pre.probed = <<streams[last.arg.start + 1].sid>>

\* With two ready streams a run of four calls selected both of them, the
\* last call the one at index 1.
C14_BothSelected ==
    /\ last.op = "next_ready"
    /\ Len(streams) = 2
    /\ last.pre.run.calls = 2 * Len(streams)
    /\ \A a \in Keys(streams) : last.pre.run.picks[a] >= 1
    /\ last.arg.start = 1

\* ------------------------------------------------------------------------
\* Operations on an absent channel (SpecData).
\* ------------------------------------------------------------------------

\* The step is a send_data or open_data call on an id the table lacks.
OnAbsentId ==
    \/ last'.op = "send_data" /\ last'.arg.id \notin DOMAIN chans
    \/ last'.op = "open_data" /\ last'.arg.afc_id \notin DOMAIN chans

\* The id the call of the step names.
CalledId == IF last'.op = "send_data" THEN last'.arg.id ELSE last'.arg.afc_id

\* The call of the step opened no connection, wrote nothing and left the
\* channel table and the stream table as they were.
NothingDone == UNCHANGED <<chans, streams, conns, backlog, next_node_id, hist>>

\* C15 as stated: send_data and open_data on an afc_id that is not in the
\* table return ChannelNotFound(afc_id) and change nothing.
C15_AbsentNotFound ==
    [][OnAbsentId => (last'.res = Res("ChannelNotFound", CalledId) /\ NothingDone)]_vars

\* C15, amended: send_data on an afc_id that is not in the table, and
\* open_data of a message of the engine's version on such an afc_id, return
\* ChannelNotFound(afc_id); every send_data and open_data on an absent
\* afc_id changes nothing.
C15_AbsentNotFoundThisVersion ==
    [][OnAbsentId =>
        /\ NothingDone
        /\ (last'.op = "open_data" => last'.arg.version = V1)
            => last'.res = Res("ChannelNotFound", CalledId)]_vars

\* send_data on absent idB returned ChannelNotFound while channel idA and a
\* stream exist.
C15_AbsentWhileOtherPresent ==
    /\ last.op = "send_data"
    /\ last.res = Res("ChannelNotFound", "idB")
    /\ "idA" \in DOMAIN chans
    /\ streams # <<>>

\* ------------------------------------------------------------------------
\* Payload kind and label in open_data (SpecChan).
\* ------------------------------------------------------------------------

\* The open_data call of the step gets as far as parsing the payload: the
\* version is the engine's, the channel exists and is not exhausted.
ReachesPayload ==
    /\ last'.op = "open_data"
    /\ last'.arg.version = V1
    /\ last'.arg.afc_id \in DOMAIN chans
    /\ chans[last'.arg.afc_id].next_min_seq # None

\* The message of the step decrypts to a label other than the channel's.
OtherLabel ==
    /\ last'.arg.ciphertext.parse = "data"
    /\ ~last'.arg.ciphertext.small
    /\ last'.arg.ciphertext.open = "ok"
    /\ last'.arg.ciphertext.label # chans[last'.arg.afc_id].chan_id.label

\* C16: an open_data that gets as far as the payload returns Bug and leaves
\* next_min_seq (and the whole table) as it was when the payload is a
\* Control payload or the decrypted label is not the channel's, whatever
\* the sequence number, also one that is not a replay.
C16_BugKeepsSeq ==
    [][(ReachesPayload /\ (last'.arg.ciphertext.parse = "control" \/ OtherLabel))
        => (last'.res.tag = "Bug" /\ chans' = chans)]_vars

\* A message with the wrong label and a sequence number that is no replay
\* on a channel that has accepted a message was answered with Bug.
C16_WrongLabelFreshSeq ==
    /\ last.op = "open_data"
    /\ last.res = Res("Bug", "label")
    /\ last.arg.afc_id \in DOMAIN chans
    /\ chans[last.arg.afc_id].next_min_seq # None
    /\ Unwrap(chans[last.arg.afc_id].next_min_seq) >= 1
    /\ last.arg.ciphertext.seq >= Unwrap(chans[last.arg.afc_id].next_min_seq)

\* ------------------------------------------------------------------------
\* send_ctrl and the channel table (SpecCtrl).
\* ------------------------------------------------------------------------

\* C17: send_ctrl returns Ok exactly when the envelope went out whole on a
\* stream that took the write and the flush; then, if afc_id was absent, the
\* table gains the entry {net_id, chan_id, addr = remote address of that
\* stream, next_min_seq = 0} and nothing else changes in it; when send_ctrl
\* fails (lookup, connect, peer address, write or flush) the table is as it
\* was.
C17_AddedIffSent ==
    [][last'.op = "send_ctrl" =>
        LET id == last'.arg.id
            sid == last'.pre.wrote
        IN  /\ (last'.res.tag = "Ok") <=> (sid # 0)
            /\ last'.res.tag = "Ok" =>
                  /\ conns'[sid].st = "open"
                  /\ last'.pre.wire = encode(Msg("Ctrl", V1, IdBytes("team"), SmallCmd)).val
            /\ (last'.res.tag = "Ok" /\ id \notin DOMAIN chans) =>
                  chans' = MapPut(chans, id,
                                  Chan(last'.arg.net_id, last'.arg.chan_id,
                                       conns'[sid].peer, Some(0)))
            /\ last'.res.tag # "Ok" =>
                  /\ chans' = chans
                  /\ last'.res.tag \in {"DnsLookup", "StreamConnect", "StreamPeerAddr",
                                        "StreamWrite"}]_vars

\* send_ctrl added a channel for an absent id over a stream that was in the
\* table already, while the other channel exists.
C17_AddedOverOldStream ==
    /\ last.op = "send_ctrl"
    /\ last.res.tag = "Ok"
    /\ ~last.pre.present
    /\ last.pre.opened = 0
    /\ Cardinality(DOMAIN chans) = 2

\* ------------------------------------------------------------------------
\* What changes a channel entry (SpecEngine).
\* ------------------------------------------------------------------------

\* next_min_seq went up from a to b (None, exhausted, is above every number).
SeqWentUp(a, b) == a # None /\ (b = None \/ Unwrap(b) > Unwrap(a))

\* Every entry of the table before the step is in the table after it, as it was.
EntriesKept == \A id \in DOMAIN chans : id \in DOMAIN chans' /\ chans'[id] = chans[id]

FirstFailing(ch, data) ==
    LET ct == data.ciphertext
        id == data.afc_id
    IN  IF data.version # V1 THEN "VersionMismatch"
        ELSE IF id \notin DOMAIN ch THEN "ChannelNotFound"
        ELSE IF ch[id].next_min_seq = None THEN "EndOfChannel"
        ELSE IF ct.parse = "err" THEN "InvalidMsg"
        ELSE IF ct.parse = "control" THEN "Bug"
        ELSE IF ct.small THEN "PayloadTooSmall"
        ELSE IF ct.open # "ok" THEN "Decryption"
        ELSE IF ct.label # ch[id].chan_id.label THEN "Bug"
        ELSE IF ct.seq < Unwrap(ch[id].next_min_seq) THEN "MsgReplayed"
        ELSE "Ok"

\* C19: open_data reports the first check that fails, in the order version
\* (also for an afc_id that is not in the table), lookup, exhaustion (the
\* opener is not called), payload parse, payload kind, payload length,
\* decryption, label, replay; the opener is called only when all checks
\* before decryption pass.
C19_FirstFailingCheck ==
    [][last'.op = "open_data" =>
        /\ last'.res.tag = FirstFailing(chans, last'.arg)
        /\ last'.pre.opened <=>
              FirstFailing(chans, last'.arg) \in {"Ok", "MsgReplayed"}
              \/ (FirstFailing(chans, last'.arg) = "Bug" /\ last'.arg.ciphertext.parse = "data")]_vars

\* A message of another version for an afc_id that is not in the table was
\* answered with VersionMismatch.
C19_VersionBeforeLookup ==
    /\ last.op = "open_data"
    /\ last.res.tag = "VersionMismatch"
    /\ last.arg.afc_id \notin DOMAIN chans
    /\ chans # <<>>

\* ------------------------------------------------------------------------
\* What a reported stream offers (SpecReady).
\* ------------------------------------------------------------------------

\* The call that acted last reported a stream as ready: next_ready returned
\* Ready(addr), or poll returned Msg(addr).
ReadyReported ==
    \/ last.op = "next_ready" /\ last.res.tag = "Ready"
    \/ last.op = "poll" /\ last.res.tag = "Msg"

\* What a read_msg(addr) called now does in its first poll.
ReadNow(addr) ==
    read_msg_run(conns[Unwrap(get_mut(streams, addr))],
                 [NoRead EXCEPT !.addr = addr, !.sid = Unwrap(get_mut(streams, addr)),
                                !.phase = "readable"])

\* C20: when next_ready returns Ready(addr), or poll returns Msg(addr), addr
\* is a key of the stream table as the call leaves it and its stream has
\* at least WIRE_HEADER_SIZE bytes buffered; a read_msg(addr) called next
\* finds the stream and reads the whole header without waiting.
C20_ReadyHasHeader ==
    ReadyReported =>
        /\ contains(streams, last.res.val)
        /\ IsSome(get_mut(streams, last.res.val))
        /\ BLen(conns[Unwrap(get_mut(streams, last.res.val))].rx) >= WIRE_HEADER_SIZE
        /\ BLen(ReadNow(last.res.val).rd.hdr) = WIRE_HEADER_SIZE
        /\ ReadNow(last.res.val).rd.consumed >= WIRE_HEADER_SIZE

\* next_ready reported the second stream it probed, and the table holds
\* another stream that has only half a header buffered.
C20_ReadyBesideHalfHeader ==
    /\ last.op = "next_ready"
    /\ last.res.tag = "Ready"
    /\ Len(last.pre.probed) = 2
    /\ \E i \in 1..Len(streams) :
           /\ conns[streams[i].sid].st = "open"
           /\ BLen(conns[streams[i].sid].rx) \in 1..(WIRE_HEADER_SIZE - 1)

\* ------------------------------------------------------------------------
\* next_ready on tables of up to MaxStreams streams (SpecProbe).
\* ------------------------------------------------------------------------

\* Connection c has the whole wire header buffered and is not in error.
HasHeader(c) == c.st # "err" /\ BLen(c.rx) >= WIRE_HEADER_SIZE

\* C21: a next_ready call on a table in which some stream has at least 8
\* bytes buffered and is not in error returns Ready, for every start index
\* and whichever other streams are evicted during the call; when it returns
\* Pending no stream left in the table has a header buffered; on an empty
\* table it returns Pending.
C21_PendingOnlyIfNoneReady ==
    [][last'.op = "next_ready" =>
        /\ (\E i \in 1..Len(streams) : HasHeader(conns[streams[i].sid]))
              => last'.res.tag = "Ready"
        /\ last'.res.tag = "Pending"
              => \A i \in 1..Len(streams') : ~HasHeader(conns'[streams'[i].sid])
        /\ streams = <<>> => last'.res.tag = "Pending"]_vars

\* next_ready evicted two streams and then reported the third one it probed.
C21_ReadyAfterEvictions ==
    /\ last.op = "next_ready"
    /\ last.res.tag = "Ready"
    /\ Len(last.pre.probed) = 3
    /\ Len(streams) = 1

\* The streams, among those the call of the step probed, whose probe
\* returned an error.
ProbedInError == {sid \in StreamSids(streams) :
                    /\ \E i \in 1..Len(last'.pre.probed) : last'.pre.probed[i] = sid
                    /\ conns[sid].st = "err"}

\* C22: within one next_ready call no stream is probed twice; a call that
\* runs to the end (Pending) has probed every stream of the table, so the
\* index adjustment after an eviction skips none; the table afterwards
\* holds exactly the streams whose probe did not return an error, under
\* their keys.
C22_ProbedOnce ==
    [][last'.op = "next_ready" =>
        /\ \A i, j \in 1..Len(last'.pre.probed) :
              i # j => last'.pre.probed[i] # last'.pre.probed[j]
        /\ Len(last'.pre.probed) <= Len(streams)
        /\ last'.res.tag = "Pending" =>
              {last'.pre.probed[i] : i \in 1..Len(last'.pre.probed)} = StreamSids(streams)
        /\ {streams'[i] : i \in 1..Len(streams')}
              = {e \in {streams[i] : i \in 1..Len(streams)} : e.sid \notin ProbedInError}
        /\ Len(streams') = Len(streams) - Cardinality(ProbedInError)]_vars

\* A call that started in the middle of the table evicted a stream before
\* and a stream after wrapping around, and probed all four streams.
C22_EvictedAcrossWrap ==
    /\ last.op = "next_ready"
    /\ last.res.tag = "Pending"
    /\ last.arg.start >= 1
    /\ Len(last.pre.probed) = 4
    /\ Len(streams) = 2
    /\ last.pre.probed[1] \notin StreamSids(streams)
    /\ last.pre.probed[4] \notin StreamSids(streams)

\* The position, counted from 1, of the k-th stream (k from 0) in cyclic
\* insertion order from index start in a table of n streams.
CyclicPos(start, k, n) == ((start + k) % n) + 1

\* C23: when no stream of the table is in error, next_ready returns the
\* first stream with a header buffered in cyclic insertion order from the
\* start index, having probed the streams before it in that order, and
\* Pending if there is none; with every stream ready the call with start
\* index i returns the i-th stream, so each stream is returned for some
\* start index in [0, N).
C23_FirstReadyFromStart ==
    [][(/\ last'.op = "next_ready"
        /\ streams # <<>>
        /\ \A i \in 1..Len(streams) : conns[streams[i].sid].st # "err") =>
        LET n == Len(streams)
            start == last'.arg.start
            Ready(k) == HasHeader(conns[streams[CyclicPos(start, k, n)].sid])
        IN  /\ streams' = streams
            /\ (\A k \in 0..(n - 1) : ~Ready(k)) => last'.res.tag = "Pending"
            /\ \A k \in 0..(n - 1) :
                  (Ready(k) /\ \A j \in 0..(k - 1) : ~Ready(j)) =>
                      /\ last'.res = Res("Ready", streams[CyclicPos(start, k, n)].addr)
                      /\ last'.pre.probed =
                            [j \in 1..(k + 1) |-> streams[CyclicPos(start, j - 1, n)].sid]
            /\ (\A i \in 1..n : HasHeader(conns[streams[i].sid])) =>
                  \A i \in 1..n :
                      next_ready(streams, conns, i - 1).res = Res("Ready", streams[i].addr)]_vars

\* In a table of four streams without errors a call that started at the
\* last index wrapped around and returned the third stream it probed.
C23_ReadyAfterWrap ==
    /\ last.op = "next_ready"
    /\ last.res.tag = "Ready"
    /\ Len(streams) = 4
    /\ \A i \in 1..Len(streams) : conns[streams[i].sid].st # "err"
    /\ last.arg.start = 3
    /\ Len(last.pre.probed) = 3

\* C26: no next_ready call indexes the table out of bounds or takes a
\* remainder modulo zero: the call returns Ready or Pending for every start
\* index and every combination of probe results; when every stream of the
\* table is in error the call probes and evicts them all, leaves the table
\* empty and returns Pending.
C26_IndexInBounds ==
    [][last'.op = "next_ready" =>
        /\ last'.res.tag \in {"Ready", "Pending"}
        /\ \A i \in 1..Len(last'.pre.probed) : last'.pre.probed[i] \in StreamSids(streams)
        /\ (\A i \in 1..Len(streams) : conns[streams[i].sid].st = "err") =>
              /\ streams' = <<>>
              /\ Len(last'.pre.probed) = Len(streams)
              /\ last'.res.tag = "Pending"]_vars

\* A call that started at the last index of a table of four streams, all in
\* error, emptied the table.
C26_TableEmptied ==
    /\ last.op = "next_ready"
    /\ last.arg.start = 3
    /\ Len(last.pre.probed) = 4
    /\ streams = <<>>

\* ------------------------------------------------------------------------
\* What removes a stream table entry (SpecTable).
\* ------------------------------------------------------------------------

\* The entries (key and stream) of a stream table.
EntrySet(strs) == {strs[i] : i \in 1..Len(strs)}

\* C24: an entry of the stream table that is gone, or whose key holds
\* another stream, after a step was evicted by the next_ready of a poll
\* because its stream was in error; every read_msg, send_ctrl and send_data
\* step, whatever it returns (StreamRead, StreamWrite, InvalidMagic,
\* MsgTooLarge and Serde included), keeps every entry.
C24_OnlyProbeErrorEvicts ==
    [][/\ \A e \in EntrySet(streams) :
              e \notin EntrySet(streams') =>
                  /\ last'.op \in {"poll", "next_ready"}
                  /\ conns[e.sid].st = "err"
       /\ last'.op \in {"read_msg", "send_ctrl", "send_data"} =>
              EntrySet(streams) \subseteq EntrySet(streams')]_vars

\* read_msg returned a Serde error and the stream it read is still in the
\* table.
C24_KeptAfterSerde ==
    /\ last.op = "read_msg"
    /\ last.res.tag = "Serde"
    /\ Entry(last.arg.addr, last.pre.sid) \in EntrySet(streams)

\* ------------------------------------------------------------------------
\* Framing across read_msg errors (SpecFrame).
\* ------------------------------------------------------------------------

\* What a peer writes in the framing specification, each in one piece: the
\* envelope of a message, an envelope whose body is not a Msg, an envelope
\* one byte longer than MAX_MSG_SIZE (its header and the first bytes of its
\* body), and a header with a wrong magic followed by the body it announces.
FrameChunks ==
    {envelope(to_allocvec(m)) : m \in SampleMsgs}
    \cup {envelope(Bytes(<<9>>)),
          BCat(BCat(WIRE_MAGIC, u32_to_le_bytes(U32Of(MAX_MSG_SIZE + 1))),
               Fill(0, WIRE_HEADER_SIZE)),
          BCat(BCat(Bytes(<<88, 89, 90, 0>>), u32_to_le_bytes(U32Of(WIRE_HEADER_SIZE))),
               Fill(0, WIRE_HEADER_SIZE))}

\* read_msg on the connection of one peer at a time, which writes whole
\* envelopes.
FrameNext ==
    \/ /\ \A sid \in Sids : conns[sid].st = "free"
       /\ PeerConnect("a1")
    \/ Poll
    \/ ReadMsgCall("a1")
    \/ ReadMsgResume
    \/ ReadMsgCancel
    \/ \E sid \in Sids, bytes \in FrameChunks : PeerSend(sid, bytes)
    \/ \E sid \in Sids : PeerClose(sid)
    \/ \E sid \in Sids : PeerReset(sid)

SpecFrame == Init /\ [][FrameNext]_vars

\* C25: the read position of a stream in the table is at an envelope
\* boundary whenever no read_msg is in progress, also after read_msg has
\* returned InvalidMagic, MsgTooLarge, StreamRead or Serde: the 8 bytes a
\* read_msg call interprets as a wire header are the first 8 bytes of an
\* envelope the peer wrote, never bytes of the body of an earlier envelope.
C25_HeaderAtBoundary ==
    HeaderRead => \E ch \in FrameChunks : last.pre.hdr = BTake(ch, WIRE_HEADER_SIZE)

====
